---- MODULE Spec2Model ----
(***************************************************************************)
(* State-machine model of the reverse-teaching dialogue engine of          *)
(* app_error_correction.py: the process-wide TeachingSession, its          *)
(* ConversationMemory, and the three request handlers start_teaching,      *)
(* teach_step and reset_session, run one at a time.                        *)
(*                                                                         *)
(* Text is modelled as TLA+ strings handled character by character         *)
(* (SubSeq, Len, \o), scores as integers in hundredths (0.75 is 75), and   *)
(* the hosted model as a nondeterministic reply to each call.              *)
(***************************************************************************)
EXTENDS Integers, Sequences, FiniteSets, TLC

\* ------------------------------------------------------------ bounds
\* teach_step is explored until this many exchanges are recorded in a session
MaxExchanges == 3
\* the same, in the long sessions of SpecDeep
MaxDeep == 5
\* the same, in the sessions of SpecAudited, which keep each request on record
MaxAudited == 3
\* the wall clock advances at most this many ticks
MaxClock == 1

\* ------------------------------------------------------------ text
Min(a, b) == IF a < b THEN a ELSE b

Max(a, b) == IF a > b THEN a ELSE b

UpperCase == "ABCDEFGHIJKLMNOPQRSTUVWXYZ"

LowerCase == "abcdefghijklmnopqrstuvwxyz"

\* str.lower() of one character
LowerChar(c) ==
    IF \E i \in 1..Len(UpperCase) : SubSeq(UpperCase, i, i) = c
    THEN LET i == CHOOSE i \in 1..Len(UpperCase) : SubSeq(UpperCase, i, i) = c
         IN SubSeq(LowerCase, i, i)
    ELSE c

RECURSIVE lower(_)
\* str.lower(), character by character (halving keeps the recursion shallow)
lower(s) ==
    IF s = "" THEN ""
    ELSE IF Len(s) = 1 THEN LowerChar(s)
    ELSE LET h == Len(s) \div 2
         IN lower(SubSeq(s, 1, h)) \o lower(SubSeq(s, h + 1, Len(s)))

RECURSIVE lstrip(_)
lstrip(s) ==
    IF s # "" /\ SubSeq(s, 1, 1) = " " THEN lstrip(SubSeq(s, 2, Len(s))) ELSE s

RECURSIVE rstrip(_)
rstrip(s) ==
    IF s # "" /\ SubSeq(s, Len(s), Len(s)) = " "
    THEN rstrip(SubSeq(s, 1, Len(s) - 1))
    ELSE s

\* str.strip()
strip(s) == rstrip(lstrip(s))

RECURSIVE WordEnd(_, _)
\* the position after the word of s that starts at position i
WordEnd(s, i) ==
    IF i > Len(s) \/ SubSeq(s, i, i) = " " THEN i ELSE WordEnd(s, i + 1)

RECURSIVE split(_)
\* str.split(): the whitespace-separated words, in order
split(s) ==
    LET t == lstrip(s)
    IN IF t = "" THEN <<>>
       ELSE LET e == WordEnd(t, 1)
            IN <<SubSeq(t, 1, e - 1)>> \o split(SubSeq(t, e, Len(t)))

\* sub in s
Contains(sub, s) ==
    \E i \in 1..(Len(s) - Len(sub) + 1) : SubSeq(s, i, i + Len(sub) - 1) = sub

\* s.startswith(p)
startswith(s, p) == Len(s) >= Len(p) /\ SubSeq(s, 1, Len(p)) = p

\* s.endswith(p)
endswith(s, p) == Len(s) >= Len(p) /\ SubSeq(s, Len(s) - Len(p) + 1, Len(s)) = p

\* s[:n]
Prefix(s, n) == SubSeq(s, 1, Min(n, Len(s)))

\* set(seq)
ToSet(seq) == {seq[i] : i \in 1..Len(seq)}

\* ------------------------------------------------------------ TopicAnalyzer
\* the keyword table of analyze_topic, in the order the dict lists it
categories ==
    << [category |-> "game",
        keywords |-> <<"game", "chess", "football", "soccer", "basketball",
                       "poker", "monopoly", "video game", "sport", "play">>,
        question_focuses |-> <<"rules", "strategy", "objectives", "gameplay",
                               "tactics", "scoring">>,
        context |-> "This is a game or sport"],
       [category |-> "skill",
        keywords |-> <<"playing", "writing", "painting", "coding", "programming",
                       "driving", "cooking", "singing", "dancing">>,
        question_focuses |-> <<"techniques", "learning process", "practice methods",
                               "common mistakes", "mastery">>,
        context |-> "This is a skill or ability"],
       [category |-> "historical_event",
        keywords |-> <<"war", "revolution", "battle", "election", "independence",
                       "empire", "civilization", "ancient", "medieval">>,
        question_focuses |-> <<"causes", "consequences", "key figures", "timeline",
                               "impact", "significance">>,
        context |-> "This is a historical event or period"],
       [category |-> "scientific_process",
        keywords |-> <<"photosynthesis", "mitosis", "respiration", "evolution",
                       "digestion", "circulation", "metabolism">>,
        question_focuses |-> <<"steps", "mechanisms", "inputs/outputs", "purpose",
                               "conditions", "variations">>,
        context |-> "This is a scientific or biological process"],
       [category |-> "concept",
        keywords |-> <<"democracy", "justice", "freedom", "love", "happiness",
                       "philosophy", "theory", "principle">>,
        question_focuses |-> <<"definition", "examples", "applications",
                               "implications", "perspectives">>,
        context |-> "This is an abstract concept or idea"],
       [category |-> "technology",
        keywords |-> <<"smartphone", "computer", "internet", "ai", "robot",
                       "software", "app", "algorithm">>,
        question_focuses |-> <<"how it works", "components", "uses", "evolution",
                               "impact", "future">>,
        context |-> "This is technology or a technological system"] >>

\* any(keyword in text for keyword in words)
AnyIn(words, text) == \E i \in 1..Len(words) : Contains(words[i], text)

\* an analyzer that returns the last category with a keyword in the topic
analyze_topic_last_match(t) ==
    LET topic_lower == lower(t)
        hits == {i \in 1..Len(categories) : AnyIn(categories[i].keywords, topic_lower)}
    IN IF hits # {}
       THEN LET info == categories[CHOOSE i \in hits : \A j \in hits : i >= j]
            IN [category |-> info.category,
                question_focuses |-> info.question_focuses,
                context |-> info.context]
       ELSE [category |-> "general",
             question_focuses |-> <<"definition", "examples", "how it works",
                                    "importance", "applications">>,
             context |-> "This is a general topic"]

\* TopicAnalyzer.analyze_topic: the first category with a keyword in the topic
analyze_topic(t) ==
    LET topic_lower == lower(t)
        hits == {i \in 1..Len(categories) : AnyIn(categories[i].keywords, topic_lower)}
    IN IF hits # {}
       THEN LET info == categories[CHOOSE i \in hits : \A j \in hits : i <= j]
            IN [category |-> info.category,
                question_focuses |-> info.question_focuses,
                context |-> info.context]
       ELSE [category |-> "general",
             question_focuses |-> <<"definition", "examples", "how it works",
                                    "importance", "applications">>,
             context |-> "This is a general topic"]

\* ------------------------------------------------------------ text predicates
\* ConversationMemory.is_question
is_question(text) ==
    \/ Contains("?", text)
    \/ \E w \in {"what", "how", "why", "when", "where", "which", "who"} :
           startswith(lower(text), w)

\* is_teacher_asking_question
is_teacher_asking_question(teacher_input) ==
    LET teacher_lower == strip(lower(teacher_input))
    IN \/ endswith(strip(teacher_input), "?")
       \/ \E starter \in {"what", "how", "why", "when", "where", "which", "who",
                          "can you", "could you"} :
              startswith(teacher_lower, starter)
       \/ AnyIn(<<"what kind of", "what type of", "like what", "such as what",
                  "for example">>, teacher_lower)

\* is_inappropriate_response
is_inappropriate_response(text) ==
    AnyIn(<<"idiot", "stupid", "dumb", "shut up", "moron">>, lower(text))

\* an assessor whose length bonus starts at 25 words
assess_teaching_quality_bonus_at_25(explanation) ==
    IF explanation = "" \/ Len(explanation) < 5 THEN 10
    ELSE IF is_teacher_asking_question(explanation) /\ Len(split(explanation)) <= 6
    THEN 40
    ELSE LET low == lower(explanation)
             words == Len(split(explanation))
             quality_indicators ==
                 << words >= 12,
                    AnyIn(<<"example", "like", "such as">>, low),
                    AnyIn(<<"because", "since", "reason">>, low),
                    AnyIn(<<"first", "then", "step">>, low),
                    AnyIn(<<"you", "imagine">>, low) >>
             hits == Cardinality({i \in 1..5 : quality_indicators[i]})
             base_score == (hits * 100) \div 5
             bonus == IF words >= 25 THEN 20 ELSE 0
         IN Min(base_score + bonus, 100)

\* assess_teaching_quality, in hundredths
assess_teaching_quality(explanation) ==
    IF explanation = "" \/ Len(explanation) < 5 THEN 10
    ELSE IF is_teacher_asking_question(explanation) /\ Len(split(explanation)) <= 6
    THEN 40
    ELSE LET low == lower(explanation)
             words == Len(split(explanation))
             quality_indicators ==
                 << words >= 12,
                    AnyIn(<<"example", "like", "such as">>, low),
                    AnyIn(<<"because", "since", "reason">>, low),
                    AnyIn(<<"first", "then", "step">>, low),
                    AnyIn(<<"you", "imagine">>, low) >>
             hits == Cardinality({i \in 1..5 : quality_indicators[i]})
             base_score == (hits * 100) \div 5
             bonus == IF words > 25 THEN 20 ELSE 0
         IN Min(base_score + bonus, 100)

\* the question signature add_exchange and has_asked_similar both use:
\* text.lower()[:60]
SignatureLen == 60

question_signature(text) == Prefix(lower(text), SignatureLen)

\* [word.lower() for word in teacher_input.split() if len(word) > 4][:3]
key_words(teacher_input) ==
    LET long == SelectSeq(split(teacher_input), LAMBDA w : Len(w) > 4)
    IN {lower(long[i]) : i \in 1..Min(3, Len(long))}

\* ------------------------------------------------------------ the hosted model
\* What one client.chat.completions.create call can come back with: an
\* exception, text that json.loads rejects, or a JSON object; a generation
\* call returns its text.
CallFailed == [status |-> "error"]

Unparsable == [status |-> "text"]

Json(obj) == [status |-> "json", body |-> obj]

Completion(text) == [status |-> "ok", text |-> text]

\* the capability is not called in this step
NotCalled == [status |-> "not_called"]

\* Python's None
None == [none |-> TRUE]

\* a local variable: F of the value the assignment computes
With(value, F(_)) == F(value)

\* dict.get(key, default)
Get(dict, key, default) == IF key \in DOMAIN dict THEN dict[key] ELSE default

\* ------------------------------------------------------------ templates
\* generate_correction_response: the three templates, in order
correction_templates(topic, error_result) ==
    LET incorrect_concept == Get(error_result, "incorrect_concept", "that concept")
        correct_explanation == Get(error_result, "correct_explanation",
                                   "the correct explanation")
    IN << "Actually, I need to correct something about " \o incorrect_concept \o "! "
            \o correct_explanation
            \o ". Let me ask you: can you explain back to me how " \o topic
            \o " actually works based on this correction?",
          "Hold on! There's a small error with " \o incorrect_concept
            \o ". Here's what actually happens: " \o correct_explanation
            \o ". Now, based on this correction, what do you think is the key process in "
            \o topic \o "?",
          "I want to help clarify something! " \o incorrect_concept
            \o " isn't quite right. The correct explanation is: " \o correct_explanation
            \o ". To make sure you understand, can you tell me what the main steps of "
            \o topic \o " are now?" >>

\* generate_verification_question: the templates for this question number
verification_templates(topic, correction_topic, question_number) ==
    IF question_number = 1
    THEN << "Great! Now can you explain to me how " \o correction_topic
              \o " actually works in " \o topic \o "?",
            "Perfect! So based on that correction, what's the key thing that happens with "
              \o correction_topic \o " during " \o topic \o "?",
            "Excellent! Now tell me, what role does " \o correction_topic
              \o " play in the process of " \o topic \o "?" >>
    ELSE << "I want to make sure this is clear - can you give me an example of "
              \o correction_topic \o " in " \o topic \o "?",
            "Let me ask differently - what would happen if " \o correction_topic
              \o " didn't work properly during " \o topic \o "?",
            "One more check - why is " \o correction_topic \o " important for "
              \o topic \o "?" >>

\* get_fallback_response: the list random.choice picks from
fallbacks(topic, teacher_is_asking, quality_level) ==
    IF teacher_is_asking
    THEN << "I meant the key aspects of " \o topic \o "! What's the most important part?",
            "The main elements that make " \o topic
              \o " work! Which one should I focus on?",
            "Let me clarify - I was curious about how " \o topic
              \o " actually functions!" >>
    ELSE IF quality_level = 1
    THEN << "That's fascinating! What's the main purpose of " \o topic \o "?",
            "Wow! How does " \o topic \o " actually work?",
            "Interesting! What makes " \o topic \o " happen?" >>
    ELSE IF quality_level = 2
    THEN << "Great explanation! How do the different parts of " \o topic \o " connect?",
            "That's helpful! What controls how " \o topic \o " works?",
            "I see! What happens if conditions change in " \o topic \o "?" >>
    ELSE << "Excellent! What are some real-world applications of " \o topic \o "?",
            "Amazing! How has " \o topic \o " evolved over time?",
            "Brilliant! How does " \o topic \o " compare to similar processes?" >>

\* handle_correction_mode: the response it builds once understanding is verified
verified_response(topic, encouragement, follow_up) ==
    "Perfect! You've got it now! " \o encouragement
        \o " Let me continue with a new question about " \o topic \o ". " \o follow_up

\* start_teaching: the input it hands to generate_response
introduction_input(topic) == "I want to learn about " \o topic

\* handle_correction_mode: the input it hands to generate_response
VerifiedInput == "corrected understanding verified"

\* generate_response: what it answers when correction mode is on
FocusingFirst == "I'm focusing on understanding the correction first!"

\* teach_step: the refusal of a disrespectful explanation
Refusal == "That's not helpful. Could you explain the concept respectfully?"

\* ------------------------------------------------------------ inputs
\* the topics a start_teaching request carries
TopicInputs == {"  ", " photosynthesis "}

ShortExplanation == "Plants eat sunlight to grow"

LongExplanation ==
    "First plants absorb sunlight because chlorophyll captures light, then they make sugars like glucose for energy"

\* the explanations a teach_step request carries
ExplanationInputs ==
    {"  ", "You are stupid", " No idea ", ShortExplanation, LongExplanation}

IncorrectConcept == "plants eating sunlight"

CorrectExplanation ==
    "Plants convert sunlight into chemical energy through photosynthesis"

\* the replies to the fact-check call
FactCheckReplies ==
    {CallFailed, Unparsable,
     Json([correct_explanation |-> CorrectExplanation]),
     Json([has_errors |-> FALSE]),
     Json([has_errors |-> TRUE, correct_explanation |-> CorrectExplanation]),
     Json([has_errors |-> TRUE, incorrect_concept |-> IncorrectConcept,
           correct_explanation |-> CorrectExplanation])}

\* the confidences an assessment reports, in hundredths
Confidences == {50, 90}

\* the replies to the understanding-assessment call
AssessReplies ==
    {CallFailed, Unparsable, Json([shows_understanding |-> TRUE])}
    \cup {Json([shows_understanding |-> u, confidence |-> c]) :
              u \in BOOLEAN, c \in Confidences}
    \cup {Json([shows_understanding |-> u, confidence |-> c,
                encouragement |-> "Great job!"]) : u \in BOOLEAN, c \in Confidences}

\* the replies to the question-generation call
GenerateReplies ==
    {CallFailed, Completion(" What does chlorophyll do inside a leaf? ")}

\* the picks of random.choice that are explored, out of the three of each list
Choices == {1}

\* ------------------------------------------------------------ what the texts say
\* Every text the handlers can meet is known from the inputs above, so what
\* the code computes from a text is computed once per text and looked up.
KnownTopics == {strip(t) : t \in TopicInputs} \cup {""}

KnownExplanations == {strip(e) : e \in ExplanationInputs}

KnownTeacherInputs ==
    KnownExplanations \cup {introduction_input(t) : t \in KnownTopics}
        \cup {VerifiedInput}

KnownCompletions ==
    {strip(r.text) : r \in {g \in GenerateReplies : g.status = "ok"}}

KnownFallbacks ==
    UNION {ToSet(fallbacks(t, a, q)) : t \in KnownTopics, a \in BOOLEAN, q \in 1..3}

KnownErrorResults ==
    {r.body : r \in {f \in FactCheckReplies :
                        /\ f.status = "json"
                        /\ {"has_errors", "incorrect_concept"} \subseteq DOMAIN f.body}}

\* the values of current_correction_topic: a concept entered, or the empty
\* string exit and reset leave
KnownCorrectionTopics == {e.incorrect_concept : e \in KnownErrorResults} \cup {""}

KnownEncouragements ==
    {"Good effort!"}
        \cup {r.body.encouragement :
                  r \in {a \in AssessReplies :
                            a.status = "json" /\ "encouragement" \in DOMAIN a.body}}

KnownResponses ==
    KnownCompletions \cup KnownFallbacks
        \cup UNION {ToSet(correction_templates(t, e)) :
                        t \in KnownTopics, e \in KnownErrorResults}
        \cup UNION {ToSet(verification_templates(t, c, n)) :
                        t \in KnownTopics, c \in KnownCorrectionTopics, n \in 1..2}
        \cup {verified_response(t, c, f) :
                  t \in KnownTopics, c \in KnownEncouragements,
                  f \in KnownCompletions \cup KnownFallbacks \cup {FocusingFirst}}
        \cup {FocusingFirst}

\* str.strip() of each request field
Stripped ==
    [x \in TopicInputs \cup ExplanationInputs
            \cup {r.text : r \in {g \in GenerateReplies : g.status = "ok"}}
        |-> strip(x)]

\* what teach_step and add_exchange compute from an explanation
ExplanationFacts ==
    [e \in KnownExplanations |->
        [words |-> Len(split(e)),
         inappropriate |-> is_inappropriate_response(e),
         quality |-> assess_teaching_quality(e),
         key_words |-> key_words(e)]]

\* is_teacher_asking_question of each input generate_response is given
TeacherAsking == [x \in KnownTeacherInputs |-> is_teacher_asking_question(x)]

\* analyze_topic of each topic
TopicAnalysis == [t \in KnownTopics |-> analyze_topic(t)]

\* what add_exchange and has_asked_similar compute from an AI response
ResponseFacts ==
    [r \in KnownResponses |->
        [is_question |-> is_question(r),
         signature |-> question_signature(r)]]

\* set(signature.split()) of each question signature
SignatureWords ==
    [g \in {ResponseFacts[r].signature : r \in KnownResponses} |-> ToSet(split(g))]

\* ------------------------------------------------------------ ConversationMemory
\* ConversationMemory.__init__
ConversationMemory ==
    [full_conversation |-> <<>>,
     asked_questions |-> {},
     last_ai_question |-> "",
     conversation_depth |-> 0,
     topic_analysis |-> None,
     concepts_covered |-> {},
     correction_mode |-> FALSE,
     incorrect_concepts |-> <<>>,
     verification_questions_asked |-> 0,
     verification_answers_correct |-> 0,
     current_correction_topic |-> ""]

\* ConversationMemory.set_topic_analysis
set_topic_analysis(memory, analysis) == [memory EXCEPT !.topic_analysis = analysis]

\* an entry into correction mode that keeps no record of the concept
enter_correction_mode_unrecorded(memory, incorrect_concept) ==
    [memory EXCEPT !.correction_mode = TRUE,
                   !.current_correction_topic = incorrect_concept,
                   !.verification_questions_asked = 0,
                   !.verification_answers_correct = 0]

\* ConversationMemory.enter_correction_mode
enter_correction_mode(memory, incorrect_concept) ==
    [memory EXCEPT !.correction_mode = TRUE,
                   !.current_correction_topic = incorrect_concept,
                   !.verification_questions_asked = 0,
                   !.verification_answers_correct = 0,
                   !.incorrect_concepts = Append(@, incorrect_concept)]

\* an exit that forgets to clear the verification counters
exit_keeping_counters(memory) ==
    [memory EXCEPT !.correction_mode = FALSE,
                   !.current_correction_topic = ""]

\* an exit that clears the episode and leaves the mode on
exit_staying_in_correction(memory) ==
    [memory EXCEPT !.current_correction_topic = "",
                   !.verification_questions_asked = 0,
                   !.verification_answers_correct = 0]

\* an exit that keeps the count of correct answers
exit_keeping_answers_correct(memory) ==
    [memory EXCEPT !.correction_mode = FALSE,
                   !.current_correction_topic = "",
                   !.verification_questions_asked = 0]

\* ConversationMemory.exit_correction_mode
exit_correction_mode(memory) ==
    [memory EXCEPT !.correction_mode = FALSE,
                   !.current_correction_topic = "",
                   !.verification_questions_asked = 0,
                   !.verification_answers_correct = 0]

\* an exchange logged without the teacher's entry
exchange_entries_ai_only(teacher_input, ai_response) ==
    << [role |-> "assistant", content |-> ai_response] >>

\* ConversationMemory.add_exchange: the two entries it appends
exchange_entries(teacher_input, ai_response) ==
    << [role |-> "user", content |-> "Teacher: " \o teacher_input],
       [role |-> "assistant", content |-> ai_response] >>

\* an asked-question set that keeps the latest fingerprint only
record_question_latest(asked_questions, ai_response) ==
    IF ResponseFacts[ai_response].is_question
    THEN {ResponseFacts[ai_response].signature}
    ELSE asked_questions

\* ConversationMemory.add_exchange: the asked-question set it leaves
record_question(asked_questions, ai_response) ==
    IF ResponseFacts[ai_response].is_question
    THEN asked_questions \cup {ResponseFacts[ai_response].signature}
    ELSE asked_questions

\* ConversationMemory.add_exchange
memory_add_exchange(memory, teacher_input, ai_response) ==
    [memory EXCEPT
       !.full_conversation = @ \o exchange_entries(teacher_input, ai_response),
       !.asked_questions = record_question(@, ai_response),
       !.last_ai_question =
           IF ResponseFacts[ai_response].is_question THEN ai_response ELSE @,
       !.concepts_covered =
           IF ExplanationFacts[teacher_input].words > 5
           THEN @ \cup ExplanationFacts[teacher_input].key_words
           ELSE @,
       !.conversation_depth = @ + 1]

\* a comparison that is content with three words in common
has_asked_similar_text_from_three(asked_questions, potential_question) ==
    \E asked \in asked_questions :
        Cardinality(ToSet(split(question_signature(potential_question)))
                        \cap ToSet(split(asked))) >= 3

\* ConversationMemory.has_asked_similar, computed from the texts themselves
has_asked_similar_text(asked_questions, potential_question) ==
    \E asked \in asked_questions :
        Cardinality(ToSet(split(question_signature(potential_question)))
                        \cap ToSet(split(asked))) >= 4

\* ConversationMemory.has_asked_similar, looked up for the texts the handlers meet
has_asked_similar(memory, potential_question) ==
    LET signature == SignatureWords[ResponseFacts[potential_question].signature]
    IN \E asked \in memory.asked_questions :
           Cardinality(signature \cap SignatureWords[asked]) >= 4

\* a reset that leaves the correction episode as it is
memory_reset_keeping_episode(memory) ==
    [memory EXCEPT !.full_conversation = <<>>,
                   !.asked_questions = {},
                   !.last_ai_question = "",
                   !.conversation_depth = 0,
                   !.topic_analysis = None,
                   !.concepts_covered = {}]

\* ConversationMemory.reset
memory_reset(memory) ==
    [memory EXCEPT !.full_conversation = <<>>,
                   !.asked_questions = {},
                   !.last_ai_question = "",
                   !.conversation_depth = 0,
                   !.topic_analysis = None,
                   !.concepts_covered = {},
                   !.correction_mode = FALSE,
                   !.incorrect_concepts = <<>>,
                   !.verification_questions_asked = 0,
                   !.verification_answers_correct = 0,
                   !.current_correction_topic = ""]

\* ------------------------------------------------------------ TeachingSession
\* TeachingSession.__init__ at time t
TeachingSession(t) ==
    [conversation_memory |-> ConversationMemory,
     teaching_quality_scores |-> <<>>,
     topic |-> "",
     ai_confusion_level |-> 1,
     session_start |-> t,
     exchanges_count |-> 0]

\* an exchange whose score also weighs the length of the reply
add_exchange_weighing_reply(session, student_explanation, ai_response, quality_score) ==
    [session EXCEPT
       !.conversation_memory =
           memory_add_exchange(@, student_explanation, ai_response),
       !.teaching_quality_scores =
           Append(@, IF Len(ai_response) % 2 = 0 THEN quality_score ELSE 0),
       !.exchanges_count = @ + 1]

\* an exchange recorded without counting it
add_exchange_uncounted(session, student_explanation, ai_response, quality_score) ==
    [session EXCEPT
       !.conversation_memory = memory_add_exchange(@, student_explanation, ai_response),
       !.teaching_quality_scores = Append(@, quality_score)]

\* TeachingSession.add_exchange
add_exchange(session, student_explanation, ai_response, quality_score) ==
    [session EXCEPT
       !.conversation_memory = memory_add_exchange(@, student_explanation, ai_response),
       !.teaching_quality_scores = Append(@, quality_score),
       !.exchanges_count = @ + 1]

\* a reset that keeps the difficulty level
reset_session_keeping_level(session, t) ==
    [session EXCEPT !.conversation_memory = memory_reset(@),
                    !.teaching_quality_scores = <<>>,
                    !.topic = "",
                    !.session_start = t,
                    !.exchanges_count = 0]

\* TeachingSession.reset_session at time t
reset_session(session, t) ==
    [session EXCEPT !.conversation_memory = memory_reset(@),
                    !.teaching_quality_scores = <<>>,
                    !.topic = "",
                    !.ai_confusion_level = 1,
                    !.session_start = t,
                    !.exchanges_count = 0]

\* ------------------------------------------------------------ error detection
\* a fact check made whatever the length of the explanation
fact_check_called_always(explanation) == TRUE

\* detect_factual_errors: whether the fact-check call is made at all
fact_check_called(explanation) == ~(ExplanationFacts[explanation].words < 8)

\* a fact check that never reports an error
detect_factual_errors_lenient(explanation, reply) == [has_errors |-> FALSE]

\* detect_factual_errors: the dict it returns, given the reply to its call
detect_factual_errors(explanation, reply) ==
    IF ~fact_check_called(explanation) THEN [has_errors |-> FALSE]
    ELSE IF reply.status = "json" /\ "has_errors" \in DOMAIN reply.body THEN reply.body
    ELSE [has_errors |-> FALSE]

\* generate_correction_response, random.choice picking template k
generate_correction_response(topic, error_result, k) ==
    correction_templates(topic, error_result)[k]

\* ------------------------------------------------------------ verification
\* assess_understanding: whether the assessment call is made at all
assessment_called(response) == ~(ExplanationFacts[response].words < 3)

\* assess_understanding: the dict it returns, given the reply to its call
assess_understanding(response, reply) ==
    IF ~assessment_called(response)
    THEN [shows_understanding |-> FALSE, confidence |-> 10]
    ELSE IF /\ reply.status = "json"
            /\ {"shows_understanding", "confidence"} \subseteq DOMAIN reply.body
    THEN reply.body
    ELSE [shows_understanding |-> ExplanationFacts[response].words > 10,
          confidence |-> 50,
          encouragement |-> "Good effort!"]

\* a loop that wants three answers that show understanding
understanding_verified_on_third(verification_answers_correct, confidence) ==
    verification_answers_correct >= 3 \/ confidence >= 80

\* a loop that counts answers only
understanding_verified_by_count(verification_answers_correct, confidence) ==
    verification_answers_correct >= 2

\* handle_correction_mode: the test that ends the verification loop, made once
\* the reply has shown understanding and answers_correct has been incremented
understanding_verified(verification_answers_correct, confidence) ==
    verification_answers_correct >= 2 \/ confidence >= 80

\* generate_verification_question, random.choice picking template k
generate_verification_question(topic, correction_topic, question_number, k) ==
    verification_templates(topic, correction_topic, question_number)[k]

\* ------------------------------------------------------------ response generation
\* get_fallback_response, random.choice picking template k
get_fallback_response(topic, teacher_is_asking, quality_level, k) ==
    fallbacks(topic, teacher_is_asking, quality_level)[k]

\* generate_response: the text it returns, the capability calls it makes and
\* whether it draws a random template, given the reply to its completion call.
\* The prompts it builds only travel to the hosted model and are not modelled.
generate_response(session, teacher_input, is_introduction, reply, k) ==
    LET memory == session.conversation_memory
        depth == memory.conversation_depth
        quality_level == session.ai_confusion_level
    IN IF memory.correction_mode
       THEN [text |-> FocusingFirst,
             invoked |-> {}, chose |-> FALSE]
       ELSE With(TeacherAsking[teacher_input] /\ ~is_introduction,
              LAMBDA teacher_is_asking :
            With([text |-> get_fallback_response(session.topic, teacher_is_asking,
                                                 quality_level, k),
                  invoked |-> {"generate"}, chose |-> TRUE],
              LAMBDA fallback :
                IF reply.status = "ok"
                THEN With(Stripped[reply.text],
                       LAMBDA ai_response :
                         IF ~teacher_is_asking /\ has_asked_similar(memory, ai_response)
                               /\ depth > 0
                         THEN fallback
                         ELSE [text |-> ai_response, invoked |-> {"generate"},
                               chose |-> FALSE])
                ELSE fallback))

\* ------------------------------------------------------------ difficulty and progress
\* scores[-n:]
LastScores(scores, n) == SubSeq(scores, Max(1, Len(scores) - n + 1), Len(scores))

\* an adjustment that does not clamp the level
adjust_confusion_level_unclamped(session, quality_score) ==
    LET current_level == session.ai_confusion_level
    IN IF quality_score >= 75 /\ session.exchanges_count >= 2
       THEN [session EXCEPT !.ai_confusion_level = current_level + 1]
       ELSE IF quality_score <= 35 /\ session.exchanges_count >= 4
       THEN LET recent_scores == LastScores(session.teaching_quality_scores, 3)
            IN IF \A i \in 1..Len(recent_scores) : recent_scores[i] <= 40
               THEN [session EXCEPT !.ai_confusion_level = current_level - 1]
               ELSE session
       ELSE session

\* an adjustment that lowers the level without looking at the recent scores
adjust_confusion_level_hasty(session, quality_score) ==
    LET current_level == session.ai_confusion_level
    IN IF quality_score >= 75 /\ session.exchanges_count >= 2
       THEN [session EXCEPT !.ai_confusion_level = Min(3, current_level + 1)]
       ELSE IF quality_score <= 35 /\ session.exchanges_count >= 4
       THEN [session EXCEPT !.ai_confusion_level = Max(1, current_level - 1)]
       ELSE session

\* adjust_confusion_level
adjust_confusion_level(session, quality_score) ==
    LET current_level == session.ai_confusion_level
    IN IF quality_score >= 75 /\ session.exchanges_count >= 2
       THEN [session EXCEPT !.ai_confusion_level = Min(3, current_level + 1)]
       ELSE IF quality_score <= 35 /\ session.exchanges_count >= 4
       THEN LET recent_scores == LastScores(session.teaching_quality_scores, 3)
            IN IF \A i \in 1..Len(recent_scores) : recent_scores[i] <= 40
               THEN [session EXCEPT !.ai_confusion_level = Max(1, current_level - 1)]
               ELSE session
       ELSE session

RECURSIVE Sum(_)
\* sum(scores)
Sum(scores) == IF scores = <<>> THEN 0 ELSE Head(scores) + Sum(Tail(scores))

\* round(num / den) to the nearest integer, ties to the even one
RoundDiv(num, den) ==
    LET q == num \div den
        r == num % den
    IN IF 2 * r < den THEN q
       ELSE IF 2 * r > den THEN q + 1
       ELSE IF q % 2 = 0 THEN q ELSE q + 1

\* two scores, the lower first
ScorePair(a, b) == <<Min(a, b), Max(a, b)>>

\* Scores are Python floats: doubles, in which 0.2, 0.4, 0.6 are not exact.
\* When the two means differ by exactly 0.2 in decimal, the doubles
\* early_avg + 0.2 and recent_avg are equal or one unit in the last place apart.
\* The pairs <<first two scores, last two scores>>, of the scores 0, 0.1, 0.2,
\* 0.4, 0.6, 0.8, 1.0 the program produces, for which the double
\* early_avg + 0.2 lies below the double recent_avg:
RoundsBelowRecent ==
    { << <<40, 100>>, <<80, 100>> >>,
      << <<60, 80>>, <<80, 100>> >> }

\* and those for which the double early_avg - 0.2 lies above the double
\* recent_avg
RoundsAboveRecent ==
    { << <<10, 100>>, <<10, 60>> >>,
      << <<20, 40>>, <<0, 20>> >>,
      << <<20, 40>>, <<10, 10>> >>,
      << <<40, 80>>, <<0, 80>> >>,
      << <<40, 80>>, <<20, 60>> >>,
      << <<40, 80>>, <<40, 40>> >>,
      << <<60, 100>>, <<20, 100>> >>,
      << <<60, 100>>, <<60, 60>> >>,
      << <<80, 80>>, <<20, 100>> >>,
      << <<80, 80>>, <<60, 60>> >> }

\* the first two and the last two of three or more scores, as pairs
Ends(scores) ==
    << ScorePair(scores[1], scores[2]),
       ScorePair(scores[Len(scores) - 1], scores[Len(scores)]) >>

\* a trend whose thresholds are inclusive
improvement_trend_inclusive(scores) ==
    IF Len(scores) >= 3
    THEN IF scores[Len(scores) - 1] + scores[Len(scores)]
               >= scores[1] + scores[2] + 40 THEN "improving"
         ELSE IF scores[Len(scores) - 1] + scores[Len(scores)]
                    <= scores[1] + scores[2] - 40 THEN "declining"
         ELSE "stable"
    ELSE "neutral"

\* get_session_progress: the trend. The two-score means are compared doubled,
\* so that no half is lost, and as the doubles compare where the decimals tie.
improvement_trend(scores) ==
    IF Len(scores) >= 3
    THEN LET recent2 == scores[Len(scores) - 1] + scores[Len(scores)]
             early2 == scores[1] + scores[2]
         IN IF recent2 > early2 + 40
                  \/ (recent2 = early2 + 40 /\ Ends(scores) \in RoundsBelowRecent)
            THEN "improving"
            ELSE IF recent2 < early2 - 40
                       \/ (recent2 = early2 - 40 /\ Ends(scores) \in RoundsAboveRecent)
            THEN "declining"
            ELSE "stable"
    ELSE "neutral"

\* get_session_progress at time t; averages in hundredths, the duration in clock
\* ticks.
get_session_progress(session, t) ==
    LET scores == session.teaching_quality_scores
        memory == session.conversation_memory
    IN IF scores = <<>>
       THEN [average_quality |-> 0,
             exchanges |-> 0,
             improvement_trend |-> "neutral",
             confusion_level |-> session.ai_confusion_level,
             session_duration |-> 0,
             correction_mode |-> memory.correction_mode]
       ELSE [average_quality |-> RoundDiv(Sum(scores), Len(scores)),
             exchanges |-> session.exchanges_count,
             improvement_trend |-> improvement_trend(scores),
             confusion_level |-> session.ai_confusion_level,
             session_duration |-> t - session.session_start,
             latest_score |-> scores[Len(scores)],
             correction_mode |-> memory.correction_mode,
             corrections_made |-> Len(memory.incorrect_concepts)]

\* ------------------------------------------------------------ teach_step's two branches
\* What a branch of teach_step hands back: the session as it leaves it, the
\* (response, score) pair, or raised when it ends in an exception; with the
\* capabilities it called, whether it drew a random template, and the
\* assessment a verification reply received.
Turn(session, raised, ai_response, quality_score, understanding_result, called, chose) ==
    [session |-> session, raised |-> raised, ai_response |-> ai_response,
     quality_score |-> quality_score, understanding_result |-> understanding_result,
     invoked |-> called, chose |-> chose]

\* handle_correction_mode: the question counted before the reply is assessed
count_verification_question(session) ==
    [session EXCEPT !.conversation_memory.verification_questions_asked = @ + 1]

\* handle_correction_mode from its call of assess_understanding on, on the
\* session as it is when the call returns
handle_assessment(asked, student_response, assess_reply, gen_reply, k) ==
    With(assess_understanding(student_response, assess_reply),
      LAMBDA understanding_result :
    With(IF assessment_called(student_response) THEN {"assess"} ELSE {},
      LAMBDA called :
    With(IF understanding_result.shows_understanding
         THEN [asked EXCEPT !.conversation_memory.verification_answers_correct = @ + 1]
         ELSE asked,
      LAMBDA counted :
        LET memory == counted.conversation_memory
        IN IF understanding_result.shows_understanding
                /\ understanding_verified(memory.verification_answers_correct,
                                          understanding_result.confidence)
           THEN With([counted EXCEPT !.conversation_memory = exit_correction_mode(@)],
                  LAMBDA exited :
                    IF "encouragement" \notin DOMAIN understanding_result
                    THEN \* KeyError while the response is built
                         Turn(exited, TRUE, "", 0, understanding_result, called, FALSE)
                    ELSE With(generate_response(exited, VerifiedInput, FALSE,
                                                gen_reply, k),
                           LAMBDA follow_up :
                             Turn(exited, FALSE,
                                  verified_response(asked.topic,
                                      understanding_result.encouragement,
                                      follow_up.text),
                                  80, understanding_result,
                                  called \cup follow_up.invoked, follow_up.chose)))
           ELSE Turn(counted, FALSE,
                     generate_verification_question(asked.topic,
                         memory.current_correction_topic,
                         memory.verification_questions_asked, k),
                     40, understanding_result, called, TRUE))))

\* handle_correction_mode
handle_correction_mode(session, student_response, assess_reply, gen_reply, k) ==
    handle_assessment(count_verification_question(session), student_response,
                      assess_reply, gen_reply, k)

\* teach_step, the branch taken when correction mode is off: error detection,
\* then either the switch to correction mode or the normal follow-up
handle_normal_mode(session, student_explanation, fact_reply, gen_reply, k) ==
    With(detect_factual_errors(student_explanation, fact_reply),
      LAMBDA error_result :
    With(IF fact_check_called(student_explanation) THEN {"fact_check"} ELSE {},
      LAMBDA called :
        IF error_result.has_errors
        THEN IF "incorrect_concept" \notin DOMAIN error_result
             THEN \* KeyError before enter_correction_mode is called
                  Turn(session, TRUE, "", 0, None, called, FALSE)
             ELSE Turn([session EXCEPT !.conversation_memory =
                           enter_correction_mode(@, error_result.incorrect_concept)],
                       FALSE,
                       generate_correction_response(session.topic, error_result, k),
                       20, None, called, TRUE)
        ELSE With(generate_response(session, student_explanation, FALSE,
                                    gen_reply, k),
               LAMBDA generated :
                 Turn(session, FALSE, generated.text,
                      ExplanationFacts[student_explanation].quality,
                      None, called \cup generated.invoked, generated.chose))))

\* ------------------------------------------------------------ request handlers
\* The result of a handler: the session it leaves, the JSON it answers with
\* (status is the HTTP status), the capabilities it called, whether it drew a
\* random template, and the assessment a verification reply received.
Outcome(session, resp, called, chose, understanding_result) ==
    [session |-> session, response |-> resp, invoked |-> called, chose |-> chose,
     understanding_result |-> understanding_result]

\* a refusal that counts as an exchange
refuse_counting(session, t) ==
    Outcome([session EXCEPT !.teaching_quality_scores = Append(@, 10),
                            !.exchanges_count = @ + 1],
            [route |-> "teach_step", status |-> 200,
             ai_response |-> Refusal,
             quality_score |-> 10,
             session_progress |-> get_session_progress(session, t),
             exchanges_count |-> session.exchanges_count + 1],
            {}, FALSE, None)

\* teach_step: the answer to a disrespectful explanation
refuse(session, t) ==
    Outcome(session,
            [route |-> "teach_step", status |-> 200,
             ai_response |-> Refusal,
             quality_score |-> 10,
             session_progress |-> get_session_progress(session, t),
             exchanges_count |-> session.exchanges_count],
            {}, FALSE, None)

\* a handler that takes any text, the empty one too
is_empty_never(text) == FALSE

\* `not text`, the test start_teaching and teach_step reject a request on
is_empty(text) == text = ""

\* start_teaching at time t
start_teaching(session, t, topic_input, gen_reply, k) ==
    With(Stripped[topic_input],
      LAMBDA topic :
        IF is_empty(topic)
        THEN Outcome(session,
                     [route |-> "start_teaching", status |-> 400,
                      error |-> "Please provide a topic to teach"],
                     {}, FALSE, None)
        ELSE With([reset_session(session, t) EXCEPT
                     !.topic = topic,
                     !.conversation_memory =
                         set_topic_analysis(@, TopicAnalysis[topic])],
               LAMBDA started :
             With(generate_response(started, introduction_input(topic), TRUE,
                                    gen_reply, k),
               LAMBDA generated :
                 Outcome(started,
                         [route |-> "start_teaching", status |-> 200,
                          ai_response |-> generated.text,
                          session_started |-> TRUE,
                          topic |-> topic,
                          confusion_level |-> started.ai_confusion_level],
                         generated.invoked, generated.chose, None))))

\* an adjustment that runs in correction mode too
adjustment_runs_always(memory) == TRUE

\* teach_step: whether adjust_confusion_level is called once the exchange is
\* recorded
adjustment_runs(memory) == ~memory.correction_mode

\* teach_step once its branch has returned: the exchange recorded, the
\* difficulty adjusted, the answer built; or the answer of the except clause
finish_teach_step(turn, student_explanation, t) ==
    IF turn.raised
    THEN Outcome(turn.session,
                 [route |-> "teach_step", status |-> 500,
                  error |-> "Failed to process teaching step"],
                 turn.invoked, turn.chose, turn.understanding_result)
    ELSE With(add_exchange(turn.session, student_explanation,
                           turn.ai_response, turn.quality_score),
           LAMBDA recorded :
         With(IF adjustment_runs(recorded.conversation_memory)
              THEN adjust_confusion_level(recorded, turn.quality_score)
              ELSE recorded,
           LAMBDA adjusted :
             Outcome(adjusted,
                     [route |-> "teach_step", status |-> 200,
                      ai_response |-> turn.ai_response,
                      quality_score |-> turn.quality_score,
                      session_progress |-> get_session_progress(adjusted, t),
                      exchanges_count |-> adjusted.exchanges_count],
                     turn.invoked, turn.chose, turn.understanding_result)))

\* teach_step at time t
teach_step(session, t, explanation_input, fact_reply, assess_reply, gen_reply, k) ==
    With(Stripped[explanation_input],
      LAMBDA student_explanation :
        IF is_empty(student_explanation)
        THEN Outcome(session,
                     [route |-> "teach_step", status |-> 400,
                      error |-> "Please provide an explanation"],
                     {}, FALSE, None)
        ELSE IF ExplanationFacts[student_explanation].inappropriate
        THEN refuse(session, t)
        ELSE With(IF session.conversation_memory.correction_mode
                  THEN handle_correction_mode(session, student_explanation,
                                              assess_reply, gen_reply, k)
                  ELSE handle_normal_mode(session, student_explanation,
                                          fact_reply, gen_reply, k),
               LAMBDA turn : finish_teach_step(turn, student_explanation, t)))

\* the reset_session route at time t
reset_session_route(session, t) ==
    Outcome(reset_session(session, t),
            [route |-> "reset_session", status |-> 200,
             message |-> "Session reset successfully"],
            {}, FALSE, None)

\* ------------------------------------------------------------ state
VARIABLES
    current_session,       \* the global TeachingSession
    now,                   \* time.time(), in clock ticks
    response,              \* what the last request was answered with
    invoked,               \* the capabilities the last request called
    verification_episode,  \* the assessments the replies of the current (or
                           \* last) correction episode received, in order
    request,               \* the last request, where requests are kept on
                           \* record: its route, the text it carried and the
                           \* replies the hosted model gave to its calls
    twin,                  \* the session of a second run of the program, given
                           \* the same requests and the same replies
    in_flight,             \* the teach_step that waits for the reply to its
                           \* first call while other requests are handled
    graded,                \* the explanation assess_teaching_quality was last
                           \* given on its own, and the score it returned
    classified,            \* the topic analyze_topic was last given on its own,
                           \* and the category it returned
    compared,              \* the question has_asked_similar was last given on
                           \* its own, and what it answered
    replaced               \* where the session a start_teaching request
                           \* replaced is kept on record: what that session
                           \* was like when the request arrived

vars ==
    <<current_session, now, response, invoked, verification_episode, request,
      twin, in_flight, graded, classified, compared, replaced>>

\* a request and the replies to the calls made while it was handled
Request(route, input, fact_reply, assess_reply, gen_reply) ==
    [route |-> route, input |-> input, fact_reply |-> fact_reply,
     assess_reply |-> assess_reply, gen_reply |-> gen_reply]

\* no request on record
NoRequest == Request("none", "", NotCalled, NotCalled, NotCalled)

\* no correction episode since the session was last reset
NoEpisode == [entered |-> FALSE, replies |-> <<>>]

Init ==
    /\ current_session = TeachingSession(0)
    /\ now = 0
    /\ response = [route |-> "none", status |-> 0]
    /\ invoked = {}
    /\ verification_episode = NoEpisode
    /\ request = NoRequest
    /\ twin = TeachingSession(0)
    /\ in_flight = None
    /\ graded = None
    /\ classified = None
    /\ compared = None
    /\ replaced = None

\* the session, the answer and the call record as a handler leaves them
Apply(outcome) ==
    /\ current_session' = outcome.session
    /\ response' = outcome.response
    /\ invoked' = outcome.invoked

\* the record of the correction episode after a teach_step
EpisodeAfter(outcome) ==
    IF outcome.understanding_result # None
    THEN [verification_episode EXCEPT !.replies =
            Append(@, <<outcome.understanding_result.shows_understanding,
                        outcome.understanding_result.confidence>>)]
    ELSE IF /\ ~current_session.conversation_memory.correction_mode
            /\ outcome.session.conversation_memory.correction_mode
    THEN [entered |-> TRUE, replies |-> <<>>]
    ELSE verification_episode

\* the fact-check replies worth telling apart for this request
FactCheckRepliesFor(explanation_input, replies) ==
    LET e == Stripped[explanation_input]
    IN IF /\ e # ""
          /\ ~ExplanationFacts[e].inappropriate
          /\ ~current_session.conversation_memory.correction_mode
          /\ fact_check_called(e)
       THEN replies ELSE {NotCalled}

\* the assessment replies worth telling apart for this request
AssessRepliesFor(explanation_input, replies) ==
    LET e == Stripped[explanation_input]
    IN IF /\ e # ""
          /\ ~ExplanationFacts[e].inappropriate
          /\ current_session.conversation_memory.correction_mode
          /\ assessment_called(e)
       THEN replies ELSE {NotCalled}

\* a start_teaching request
StartTeachingOn(topics, gen_replies, choices, audited) ==
    \E topic_input \in topics, gen_reply \in gen_replies,
       k1 \in {CHOOSE k \in choices : TRUE} :
    \E probe \in {start_teaching(current_session, now, topic_input, gen_reply, k1)} :
    \E k \in (IF probe.chose THEN choices ELSE {k1}) :
        /\ Apply(start_teaching(current_session, now, topic_input, gen_reply, k))
        /\ verification_episode' =
               IF Stripped[topic_input] = "" THEN verification_episode ELSE NoEpisode
        /\ request' = IF audited
                      THEN Request("start_teaching", topic_input, NotCalled, NotCalled,
                                   IF "generate" \in probe.invoked
                                   THEN gen_reply ELSE NotCalled)
                      ELSE request
        /\ UNCHANGED <<now, twin, in_flight, graded, classified, compared, replaced>>

\* a teach_step request
TeachStepOn(explanations, fact_replies, assess_replies, gen_replies, choices, audited) ==
    \E explanation_input \in explanations :
    \E fact_reply \in FactCheckRepliesFor(explanation_input, fact_replies),
       assess_reply \in AssessRepliesFor(explanation_input, assess_replies),
       k1 \in {CHOOSE k \in choices : TRUE} :
    \E dry \in {teach_step(current_session, now, explanation_input,
                           fact_reply, assess_reply, CallFailed, k1)} :
    \E gen_reply \in (IF "generate" \in dry.invoked THEN gen_replies ELSE {NotCalled}) :
    \E probe \in {teach_step(current_session, now, explanation_input,
                             fact_reply, assess_reply, gen_reply, k1)} :
    \E k \in (IF probe.chose THEN choices ELSE {k1}) :
    \E outcome \in {teach_step(current_session, now, explanation_input,
                               fact_reply, assess_reply, gen_reply, k)} :
        /\ Apply(outcome)
        /\ verification_episode' = EpisodeAfter(outcome)
        /\ request' = IF audited
                      THEN Request("teach_step", explanation_input, fact_reply,
                                   assess_reply, gen_reply)
                      ELSE request
        /\ UNCHANGED <<now, twin, in_flight, graded, classified, compared, replaced>>

StartTeaching == StartTeachingOn(TopicInputs, GenerateReplies, Choices, FALSE)

TeachStep ==
    /\ current_session.exchanges_count < MaxExchanges
    /\ TeachStepOn(ExplanationInputs, FactCheckReplies, AssessReplies,
                   GenerateReplies, Choices, FALSE)

\* a reset_session request
ResetSessionOn(audited) ==
    /\ Apply(reset_session_route(current_session, now))
    /\ verification_episode' = NoEpisode
    /\ request' = IF audited
                  THEN Request("reset_session", "", NotCalled, NotCalled, NotCalled)
                  ELSE request
    /\ UNCHANGED <<now, twin, in_flight, graded, classified, compared, replaced>>

ResetSession == ResetSessionOn(FALSE)

\* time passes
Tick ==
    /\ now < MaxClock
    /\ now' = now + 1
    /\ UNCHANGED <<current_session, response, invoked, verification_episode, request,
                   twin, in_flight, graded, classified, compared, replaced>>

Next == StartTeaching \/ TeachStep \/ ResetSession \/ Tick

Spec == Init /\ [][Next]_vars

\* ------------------------------------------------------------ long sessions
\* Difficulty moves on the fifth exchange at the earliest (a promotion needs
\* two exchanges, a demotion three low scores after it), so the difficulty
\* controller is explored in longer sessions over the inputs it depends on:
\* the explanations that are fact-checked, scored and assessed, one topic, the
\* clock standing still.
DeepExplanations == {ShortExplanation, LongExplanation}

StartTeachingDeep ==
    StartTeachingOn({" photosynthesis "}, GenerateReplies, Choices, FALSE)

\* the assessments that fail or carry every key (the replies with a key
\* missing are explored in Spec)
DeepAssessReplies ==
    {a \in AssessReplies : a.status = "json" => "encouragement" \in DOMAIN a.body}

TeachStepDeep ==
    /\ current_session.exchanges_count < MaxDeep
    /\ TeachStepOn(DeepExplanations, FactCheckReplies, DeepAssessReplies,
                   GenerateReplies, Choices, FALSE)

NextDeep == StartTeachingDeep \/ TeachStepDeep \/ ResetSession

SpecDeep == Init /\ [][NextDeep]_vars

\* Sessions started over: the same requests, with the state a start_teaching
\* request found the session in kept on record until the next request.
Found(session) ==
    [correction_mode |-> session.conversation_memory.correction_mode,
     corrections |-> Len(session.conversation_memory.incorrect_concepts),
     ai_confusion_level |-> session.ai_confusion_level,
     exchanges_count |-> session.exchanges_count]

StartTeachingOver ==
    \E gen_reply \in GenerateReplies, k \in Choices :
    \E outcome \in {start_teaching(current_session, now, " photosynthesis ",
                                   gen_reply, k)} :
        /\ Apply(outcome)
        /\ verification_episode' = NoEpisode
        /\ replaced' = Found(current_session)
        /\ UNCHANGED <<now, request, twin, in_flight, graded, classified, compared>>

TeachStepOver ==
    /\ current_session.exchanges_count < MaxDeep
    /\ \E explanation_input \in DeepExplanations :
       \E fact_reply \in FactCheckRepliesFor(explanation_input, FactCheckReplies),
          assess_reply \in AssessRepliesFor(explanation_input, DeepAssessReplies),
          gen_reply \in GenerateReplies, k \in Choices :
       \E outcome \in {teach_step(current_session, now, explanation_input,
                                  fact_reply, assess_reply, gen_reply, k)} :
          /\ Apply(outcome)
          /\ verification_episode' = EpisodeAfter(outcome)
    /\ replaced' = None
    /\ UNCHANGED <<now, request, twin, in_flight, graded, classified, compared>>

NextRestart == StartTeachingOver \/ TeachStepOver

SpecRestart == Init /\ [][NextRestart]_vars

\* ------------------------------------------------------------ audited sessions
\* The requests of Spec, each kept on record with the replies it received; the
\* clock stands still.
StartTeachingAudited == StartTeachingOn(TopicInputs, GenerateReplies, Choices, TRUE)

TeachStepAudited ==
    /\ current_session.exchanges_count < MaxAudited
    /\ TeachStepOn(ExplanationInputs, FactCheckReplies, AssessReplies,
                   GenerateReplies, Choices, TRUE)

ResetSessionAudited == ResetSessionOn(TRUE)

NextAudited == StartTeachingAudited \/ TeachStepAudited \/ ResetSessionAudited

SpecAudited == Init /\ [][NextAudited]_vars

\* ------------------------------------------------------------ two runs
\* Two runs of the program are given the same requests and the same replies
\* from the hosted model; each draws its own random templates.
MaxTwin == 3

\* the picks of random.choice explored in the two runs
TwinChoices == {1, 2}

TwinFactCheckReplies ==
    {Json([has_errors |-> FALSE]),
     Json([has_errors |-> TRUE, incorrect_concept |-> IncorrectConcept,
           correct_explanation |-> CorrectExplanation])}

TwinAssessReplies ==
    {CallFailed,
     Json([shows_understanding |-> FALSE, confidence |-> 50,
           encouragement |-> "Great job!"]),
     Json([shows_understanding |-> TRUE, confidence |-> 90,
           encouragement |-> "Great job!"])}

StartTeachingTwin ==
    \E gen_reply \in GenerateReplies, k1 \in TwinChoices, k2 \in TwinChoices :
        /\ Apply(start_teaching(current_session, now, " photosynthesis ", gen_reply, k1))
        /\ twin' = start_teaching(twin, now, " photosynthesis ", gen_reply, k2).session
        /\ verification_episode' = NoEpisode
        /\ UNCHANGED <<now, request, in_flight, graded, classified, compared, replaced>>

TeachStepTwin ==
    /\ current_session.exchanges_count < MaxTwin
    /\ \E explanation_input \in DeepExplanations :
       \E fact_reply \in FactCheckRepliesFor(explanation_input, TwinFactCheckReplies),
          assess_reply \in AssessRepliesFor(explanation_input, TwinAssessReplies),
          gen_reply \in GenerateReplies, k1 \in TwinChoices, k2 \in TwinChoices :
       \E outcome \in {teach_step(current_session, now, explanation_input,
                                  fact_reply, assess_reply, gen_reply, k1)} :
           /\ Apply(outcome)
           /\ twin' = teach_step(twin, now, explanation_input,
                                 fact_reply, assess_reply, gen_reply, k2).session
           /\ verification_episode' = EpisodeAfter(outcome)
           /\ UNCHANGED <<now, request, in_flight, graded, classified, compared, replaced>>

ResetSessionTwin ==
    /\ Apply(reset_session_route(current_session, now))
    /\ twin' = reset_session(twin, now)
    /\ verification_episode' = NoEpisode
    /\ UNCHANGED <<now, request, in_flight, graded, classified, compared, replaced>>

NextTwin == StartTeachingTwin \/ TeachStepTwin \/ ResetSessionTwin

SpecTwin == Init /\ [][NextTwin]_vars

\* ------------------------------------------------------------ requests that overlap
\* The app serves each request on a thread of its own and the session is one
\* global object without a lock. A teach_step spends its time waiting for the
\* hosted model; here one teach_step at a time waits for the reply to its first
\* call (the fact check, or the assessment in correction mode) while
\* reset_session requests are served, and then runs to its end on the session
\* as it finds it.
MaxRace == 3

\* a teach_step on its way: the explanation it carries, the branch it took,
\* and whether another request was served while it waited
Flight(explanation, branch, overtaken) ==
    [explanation |-> explanation, branch |-> branch, overtaken |-> overtaken]

StartTeachingRace ==
    /\ in_flight = None
    /\ StartTeachingOn({" photosynthesis "}, GenerateReplies, Choices, FALSE)

\* a teach_step that no request overlaps
TeachStepRace ==
    /\ in_flight = None
    /\ current_session.exchanges_count < MaxRace
    /\ TeachStepOn(DeepExplanations, TwinFactCheckReplies, TwinAssessReplies,
                   GenerateReplies, Choices, FALSE)

\* teach_step up to its first call of the hosted model
TeachStepBegin ==
    /\ in_flight = None
    /\ current_session.exchanges_count < MaxRace
    /\ \E explanation_input \in DeepExplanations :
       \E e \in {Stripped[explanation_input]} :
          /\ ~is_empty(e)
          /\ ~ExplanationFacts[e].inappropriate
          /\ IF current_session.conversation_memory.correction_mode
             THEN /\ assessment_called(e)
                  /\ current_session' = count_verification_question(current_session)
                  /\ in_flight' = Flight(e, "correction", FALSE)
             ELSE /\ fact_check_called(e)
                  /\ current_session' = current_session
                  /\ in_flight' = Flight(e, "normal", FALSE)
    /\ UNCHANGED <<now, response, invoked, verification_episode, request, twin,
                   graded, classified, compared, replaced>>

\* a reset_session request, served whether or not a teach_step is on its way
ResetSessionRace ==
    /\ Apply(reset_session_route(current_session, now))
    /\ verification_episode' = NoEpisode
    /\ in_flight' = IF in_flight = None THEN None
                    ELSE [in_flight EXCEPT !.overtaken = TRUE]
    /\ UNCHANGED <<now, request, twin, graded, classified, compared, replaced>>

\* teach_step from the reply to its first call to its end
TeachStepComplete ==
    /\ in_flight # None
    /\ \E fact_reply \in (IF in_flight.branch = "normal"
                          THEN TwinFactCheckReplies ELSE {NotCalled}),
          assess_reply \in (IF in_flight.branch = "correction"
                            THEN TwinAssessReplies ELSE {NotCalled}),
          gen_reply \in GenerateReplies, k \in Choices :
       \E turn \in {IF in_flight.branch = "correction"
                    THEN handle_assessment(current_session, in_flight.explanation,
                                           assess_reply, gen_reply, k)
                    ELSE handle_normal_mode(current_session, in_flight.explanation,
                                            fact_reply, gen_reply, k)} :
       \E outcome \in {finish_teach_step(turn, in_flight.explanation, now)} :
          /\ Apply(outcome)
          /\ verification_episode' = EpisodeAfter(outcome)
    /\ in_flight' = None
    /\ UNCHANGED <<now, request, twin, graded, classified, compared, replaced>>

NextRace ==
    \/ StartTeachingRace
    \/ TeachStepRace
    \/ TeachStepBegin
    \/ ResetSessionRace
    \/ TeachStepComplete

SpecRace == Init /\ [][NextRace]_vars

\* Two teach_step requests on their threads: while one waits for the reply to
\* its first call, the other is handled from its first statement to its last.
TeachStepOvertaking ==
    /\ in_flight # None
    /\ current_session.exchanges_count < MaxRace
    /\ \E explanation_input \in DeepExplanations :
       \E fact_reply \in FactCheckRepliesFor(explanation_input, TwinFactCheckReplies),
          assess_reply \in AssessRepliesFor(explanation_input, TwinAssessReplies),
          gen_reply \in GenerateReplies, k \in Choices :
       \E outcome \in {teach_step(current_session, now, explanation_input,
                                  fact_reply, assess_reply, gen_reply, k)} :
          /\ Apply(outcome)
          /\ verification_episode' = EpisodeAfter(outcome)
    /\ in_flight' = [in_flight EXCEPT !.overtaken = TRUE]
    /\ UNCHANGED <<now, request, twin, graded, classified, compared, replaced>>

NextOverlap ==
    \/ StartTeachingRace
    \/ TeachStepRace
    \/ TeachStepBegin
    \/ TeachStepOvertaking
    \/ TeachStepComplete

SpecOverlap == Init /\ [][NextOverlap]_vars

\* ------------------------------------------------------------ the quality assessor alone
\* assess_teaching_quality reads nothing but its argument. It is given
\* explanations put together from the words that set its indicators, one per
\* indicator, and a number of words that set none, with or without a closing
\* question mark.
MaxFiller == 26

\* one word for each indicator that looks at the words used: uses_examples,
\* explains_reasoning, step_by_step, engaging
MarkerWords == <<"example", "because", "first", "you">>

RECURSIVE Words(_, _)
\* n times the word, each after a space
Words(word, n) == IF n = 0 THEN "" ELSE " " \o word \o Words(word, n - 1)

RECURSIVE Marked(_, _)
\* the marker words numbered in markers, from the i-th on, each after a space
Marked(markers, i) ==
    IF i > Len(MarkerWords) THEN ""
    ELSE (IF i \in markers THEN " " \o MarkerWords[i] ELSE "")
            \o Marked(markers, i + 1)

\* the explanation of these markers, so many fillers and, when asked for, a
\* closing question mark
Compose(markers, fillers, asks) ==
    lstrip(Marked(markers, 1) \o Words("plants", fillers))
        \o (IF asks THEN "?" ELSE "")

\* an explanation, how it was put together, whether it has been assessed, and
\* the score it was given
Graded(markers, fillers, asks, explanation, assessed, score) ==
    [markers |-> markers, fillers |-> fillers, asks |-> asks,
     explanation |-> explanation, assessed |-> assessed, score |-> score]

\* the app as it starts, and an explanation to assess
InitQuality ==
    /\ current_session = TeachingSession(0)
    /\ now = 0
    /\ response = [route |-> "none", status |-> 0]
    /\ invoked = {}
    /\ verification_episode = NoEpisode
    /\ request = NoRequest
    /\ twin = TeachingSession(0)
    /\ in_flight = None
    /\ classified = None
    /\ compared = None
    /\ replaced = None
    /\ \E markers \in SUBSET (1..Len(MarkerWords)), fillers \in 0..MaxFiller,
          asks \in BOOLEAN :
          graded = Graded(markers, fillers, asks, Compose(markers, fillers, asks),
                          FALSE, 0)

AssessQuality ==
    /\ ~graded.assessed
    /\ graded' = [graded EXCEPT !.assessed = TRUE,
                                !.score = assess_teaching_quality(graded.explanation)]
    /\ UNCHANGED <<current_session, now, response, invoked, verification_episode,
                   request, twin, in_flight, classified, compared, replaced>>

SpecQuality == InitQuality /\ [][AssessQuality]_vars

\* ------------------------------------------------------------ the topic analyzer alone
\* analyze_topic reads nothing but its argument. It is given topics put
\* together from one keyword of each category chosen, in the order of the
\* categories or against it, in lower case or not, and a few topics in which
\* the keyword of one category hides in the word of another.

\* the categories in the order the dict lists them
CategoryNames ==
    <<"game", "skill", "historical_event", "scientific_process", "concept",
      "technology">>

\* one keyword of each, in which no keyword of another occurs
CategoryWords == <<"chess", "writing", "battle", "mitosis", "justice", "robot">>

\* the same, not in lower case
CategoryWordsCased == <<"CHESS", "Writing", "BATTLE", "Mitosis", "JUSTICE", "Robot">>

RECURSIVE TopicOf(_, _, _, _)
\* the words of the categories chosen, from the i-th on, each after a space
TopicOf(chosen, words, backwards, i) ==
    IF i > Len(words) THEN ""
    ELSE LET word == IF i \in chosen THEN " " \o words[i] ELSE ""
             rest == TopicOf(chosen, words, backwards, i + 1)
         IN IF backwards THEN rest \o word ELSE word \o rest

\* a topic, the category the way it was put together calls for, whether it
\* has been analyzed, and the category returned
Classified(topic, expected, analyzed, category) ==
    [topic |-> topic, expected |-> expected, analyzed |-> analyzed,
     category |-> category]

\* topics in which a keyword of one category is part of a word of another,
\* and two without any keyword
HiddenKeywordTopics ==
    { <<"software", "historical_event">>,
      <<"playing chess", "game">>,
      <<"happiness apps", "concept">>,
      <<"java programming", "skill">>,
      <<"", "general">>,
      <<"gardening", "general">> }

TopicsToClassify ==
    { Classified(lstrip(TopicOf(chosen, IF cased THEN CategoryWordsCased
                                               ELSE CategoryWords,
                                backwards, 1)),
                 IF chosen = {} THEN "general"
                 ELSE CategoryNames[CHOOSE i \in chosen : \A j \in chosen : i <= j],
                 FALSE, "") :
          chosen \in SUBSET (1..Len(CategoryWords)), backwards \in BOOLEAN,
          cased \in BOOLEAN }
      \cup { Classified(h[1], h[2], FALSE, "") : h \in HiddenKeywordTopics }

\* the app as it starts, and a topic to analyze
InitClassify ==
    /\ current_session = TeachingSession(0)
    /\ now = 0
    /\ response = [route |-> "none", status |-> 0]
    /\ invoked = {}
    /\ verification_episode = NoEpisode
    /\ request = NoRequest
    /\ twin = TeachingSession(0)
    /\ in_flight = None
    /\ graded = None
    /\ compared = None
    /\ replaced = None
    /\ classified \in TopicsToClassify

AnalyzeTopic ==
    /\ ~classified.analyzed
    /\ classified' = [classified EXCEPT
                         !.analyzed = TRUE,
                         !.category = analyze_topic(classified.topic).category]
    /\ UNCHANGED <<current_session, now, response, invoked, verification_episode,
                   request, twin, in_flight, graded, compared, replaced>>

SpecClassify == InitClassify /\ [][AnalyzeTopic]_vars

\* ------------------------------------------------------------ the similarity check alone
\* has_asked_similar reads the stored fingerprints and its argument. Two
\* questions are stored; the candidates are so many six-letter words the first
\* stored question does not have, followed by so many of its five-letter
\* words, different ones or the first one over again, in lower case or not.
MaxPad == 8

\* the questions add_exchange has stored the fingerprints of
StoredQuestions ==
    {"what alpha bravo delta gamma kappa sigma",
     "why is the sky so very blue today"}

\* asked_questions after add_exchange has seen them (line 121)
StoredFingerprints == {question_signature(q) : q \in StoredQuestions}

SharedWords == <<"alpha", "bravo", "delta", "gamma", "kappa", "sigma">>

SharedWordsCased == <<"ALPHA", "Bravo", "DELTA", "Gamma", "KAPPA", "Sigma">>

RECURSIVE FirstWords(_, _, _)
\* the i-th to the n-th of the words, each after a space
FirstWords(words, n, i) ==
    IF i > n THEN "" ELSE " " \o words[i] \o FirstWords(words, n, i + 1)

\* the candidate question
Candidate(pads, shared, repeated, cased) ==
    lstrip(Words("orange", pads)
             \o (IF repeated
                 THEN Words(IF cased THEN "ALPHA" ELSE "alpha", shared)
                 ELSE FirstWords(IF cased THEN SharedWordsCased ELSE SharedWords,
                                 shared, 1)))

\* a candidate, how it was put together, whether it has been compared, and
\* the answer
Compared(pads, shared, repeated, candidate, done, answer) ==
    [pads |-> pads, shared |-> shared, repeated |-> repeated,
     candidate |-> candidate, done |-> done, answer |-> answer]

\* the app as it starts, and a candidate to compare
InitSimilar ==
    /\ current_session = TeachingSession(0)
    /\ now = 0
    /\ response = [route |-> "none", status |-> 0]
    /\ invoked = {}
    /\ verification_episode = NoEpisode
    /\ request = NoRequest
    /\ twin = TeachingSession(0)
    /\ in_flight = None
    /\ graded = None
    /\ classified = None
    /\ replaced = None
    /\ \E pads \in 0..MaxPad, shared \in 0..Len(SharedWords),
          repeated \in BOOLEAN, cased \in BOOLEAN :
          compared = Compared(pads, shared, repeated,
                              Candidate(pads, shared, repeated, cased),
                              FALSE, FALSE)

HasAskedSimilar ==
    /\ ~compared.done
    /\ compared' = [compared EXCEPT
                       !.done = TRUE,
                       !.answer = has_asked_similar_text(StoredFingerprints,
                                                         compared.candidate)]
    /\ UNCHANGED <<current_session, now, response, invoked, verification_episode,
                   request, twin, in_flight, graded, classified, replaced>>

SpecSimilar == InitSimilar /\ [][HasAskedSimilar]_vars

\* ------------------------------------------------------------ steps and state, named
memory == current_session.conversation_memory

log == memory.full_conversation

scores == current_session.teaching_quality_scores

level == current_session.ai_confusion_level

replies == verification_episode.replies

\* this step is a reset_session request or a start_teaching request that was
\* accepted: a new session begins
NewSession ==
    \/ response'.route = "reset_session"
    \/ response'.route = "start_teaching" /\ response'.status = 200

\* this step is a teach_step request that switched correction mode on
Entering == ~memory.correction_mode /\ memory'.correction_mode

\* this step is a teach_step request handled on the verification path: its
\* reply was assessed
VerifyingReply ==
    /\ verification_episode.entered
    /\ verification_episode'.entered
    /\ Len(replies') = Len(replies) + 1

\* this step is a teach_step request whose exchange was recorded
Recorded ==
    /\ ~NewSession
    /\ current_session'.exchanges_count = current_session.exchanges_count + 1

\* the replies that showed understanding with confidence below 0.8
TrueLow(r) == r[1] /\ r[2] < 80

\* ------------------------------------------------------------ C1
\* C1: whenever correction mode is inactive between two requests, both
\* verification counters are 0.
C1_CountersZeroWhenInactive ==
    ~memory.correction_mode =>
        /\ memory.verification_questions_asked = 0
        /\ memory.verification_answers_correct = 0

\* an episode that took two replies has ended
C1_Witness ==
    /\ verification_episode.entered
    /\ Len(replies) >= 2
    /\ ~memory.correction_mode

\* ------------------------------------------------------------ C2
\* C2: in a correction episode whose replies all showed understanding with
\* confidence below 0.8, correction mode is on before the second reply and off
\* from the second reply on; in an episode whose replies all failed to show
\* understanding, correction mode stays on.
C2_ExitsOnSecondReply ==
    verification_episode.entered =>
        /\ (\A i \in 1..Len(replies) : TrueLow(replies[i]))
               => (memory.correction_mode <=> Len(replies) < 2)
        /\ (\A i \in 1..Len(replies) : ~replies[i][1]) => memory.correction_mode

\* two replies that showed understanding with low confidence ended the episode
C2_Witness ==
    /\ verification_episode.entered
    /\ Len(replies) = 2
    /\ TrueLow(replies[1]) /\ TrueLow(replies[2])
    /\ ~memory.correction_mode

\* ------------------------------------------------------------ C3
\* the assessment the reply of this step received
LastReply == replies'[Len(replies')]

\* the verification counter as this step incremented it
AnswersCorrectAfter ==
    memory.verification_answers_correct + (IF LastReply[1] THEN 1 ELSE 0)

\* C3 as the specification words it: a reply on the verification path ends
\* correction mode if and only if the incremented answers_correct is at least 2
\* or the confidence is at least 0.8, whatever shows_understanding says.
C3_ExitWhateverUnderstanding ==
    [][VerifyingReply =>
          (~memory'.correction_mode
              <=> (AnswersCorrectAfter >= 2 \/ LastReply[2] >= 80))]_vars

\* C3: a reply on the verification path ends correction mode if and only if it
\* shows understanding and either the incremented answers_correct is at least
\* 2 or the confidence is at least 0.8. A reply that stays in correction mode is
\* recorded with score 0.4; a reply that ends it is recorded with score 0.8
\* unless the request fails, and a failed request records nothing.
C3_ExitNeedsUnderstanding ==
    [][VerifyingReply =>
          /\ ~memory'.correction_mode
                 <=> /\ LastReply[1]
                     /\ (AnswersCorrectAfter >= 2 \/ LastReply[2] >= 80)
          /\ memory'.correction_mode =>
                 /\ response'.status = 200
                 /\ response'.quality_score = 40
                 /\ scores' = Append(scores, 40)
          /\ ~memory'.correction_mode =>
                 \/ /\ response'.status = 200
                    /\ response'.quality_score = 80
                    /\ scores' = Append(scores, 80)
                 \/ /\ response'.status = 500
                    /\ scores' = scores]_vars

\* a confident assessment that denies understanding has left the session in
\* correction mode, the reply recorded with 0.4
C3_Witness ==
    /\ verification_episode.entered
    /\ Len(replies) > 0
    /\ replies[Len(replies)] = <<FALSE, 90>>
    /\ memory.correction_mode
    /\ response.route = "teach_step" /\ response.status = 200
    /\ response.quality_score = 40
    /\ scores[Len(scores)] = 40

\* ------------------------------------------------------------ C4
\* this step is the first recorded teach_step of a session on photosynthesis,
\* explaining that plants eat sunlight to grow
FirstStepEatsSunlight ==
    /\ current_session.topic = "photosynthesis"
    /\ current_session.exchanges_count = 0
    /\ Recorded
    /\ log'[1].content = "Teacher: " \o ShortExplanation

\* this step is the first reply of the session's first correction episode, and
\* it is assessed as showing understanding with confidence at least 0.8
FirstReplyConfident ==
    /\ VerifyingReply
    /\ replies = <<>>
    /\ Len(memory.incorrect_concepts) = 1
    /\ LastReply[1] /\ LastReply[2] >= 80

C5_DifficultyInRange == level \in {1, 2, 3}

\* the level is 3 after three steps in a row, none in a correction episode, that
\* each scored at least 0.75 with two exchanges recorded: the third met the cap
C5_Witness ==
    /\ ~verification_episode.entered
    /\ Len(scores) >= 4
    /\ scores[2] >= 75 /\ scores[3] >= 75 /\ scores[4] >= 75
    /\ level = 3

\* ------------------------------------------------------------ C6
\* this step is a recorded teach_step that ends outside correction mode: the
\* steps on which the adjustment runs
Adjusting == Recorded /\ ~memory'.correction_mode

\* the score of the exchange this step recorded
StepScore == scores'[Len(scores')]

\* the three most recent scores, this step's included, are all at most 0.4
RecentAllLow ==
    \A i \in 1..Len(scores') : i > Len(scores') - 3 => scores'[i] <= 40

\* C6: on a step on which the adjustment runs, a score of at least 0.75 with at
\* least 2 exchanges recorded raises the level by one, capped at 3; otherwise a
\* score of at most 0.35 with at least 4 exchanges recorded and the three most
\* recent scores all at most 0.4 lowers it by one, floored at 1; otherwise the
\* level is unchanged. No teach_step changes the level by more than one.
C6_AdjustmentRule ==
    [][/\ Adjusting =>
              level' =
                  IF StepScore >= 75 /\ current_session'.exchanges_count >= 2
                  THEN Min(3, level + 1)
                  ELSE IF /\ StepScore <= 35
                          /\ current_session'.exchanges_count >= 4
                          /\ RecentAllLow
                  THEN Max(1, level - 1)
                  ELSE level
       /\ response'.route = "teach_step" =>
              level' \in {level - 1, level, level + 1}]_vars

\* the level, raised to 2 by the second exchange, is back at 1 after the fifth:
\* the third, fourth and fifth all scored at most 0.35
C6_Witness ==
    /\ ~verification_episode.entered
    /\ Len(scores) = 5
    /\ scores[2] >= 75
    /\ scores[3] <= 35 /\ scores[4] <= 35 /\ scores[5] <= 35
    /\ level = 1

\* ------------------------------------------------------------ C7
\* C7 as the specification words it: the step that enters correction mode and
\* every step handled on the verification path, the one that meets the exit
\* condition included, leave the difficulty level unchanged.
C7_FrozenThroughExit ==
    [][(Entering \/ VerifyingReply) => level' = level]_vars

\* C7: the step that enters correction mode and every step on the verification
\* path that stays in correction mode leave the difficulty level unchanged; the
\* step that ends correction mode raises it by one, capped at 3, when its
\* exchange is recorded, and leaves it unchanged when the request fails.
C7_FrozenUntilExit ==
    [][/\ (Entering \/ (VerifyingReply /\ memory'.correction_mode)) =>
              level' = level
       /\ (VerifyingReply /\ ~memory'.correction_mode) =>
              level' = IF Recorded THEN Min(3, level + 1) ELSE level]_vars

\* an episode entered at level 1 on the first exchange has ended on the
\* second, which left the level at 2
C7_Witness ==
    /\ verification_episode.entered
    /\ Len(replies) = 1
    /\ ~memory.correction_mode
    /\ scores = <<20, 80>>
    /\ level = 2

\* ------------------------------------------------------------ C8
\* the log alternates teacher entries and AI entries, a teacher entry first
Paired(entries) ==
    /\ Len(entries) % 2 = 0
    /\ \A i \in 1..Len(entries) :
           entries[i].role = IF i % 2 = 1 THEN "user" ELSE "assistant"

\* C8: within a session no step removes or rewrites a log entry; a recorded
\* teach_step appends one teacher entry followed by one AI entry, the response
\* it returned, and any other step of the session leaves the log as it is.
C8_LogAppendOnly ==
    [][/\ Paired(log')
       /\ ~NewSession =>
              IF Recorded
              THEN /\ response'.status = 200
                   /\ Len(log') = Len(log) + 2
                   /\ SubSeq(log', 1, Len(log)) = log
                   /\ log'[Len(log') - 1].role = "user"
                   /\ \E e \in KnownExplanations :
                          log'[Len(log') - 1].content = "Teacher: " \o e
                   /\ log'[Len(log')] =
                          [role |-> "assistant", content |-> response'.ai_response]
              ELSE log' = log]_vars

\* three exchanges are logged, the second inside a correction episode
C8_Witness ==
    /\ Len(log) = 6
    /\ Paired(log)
    /\ verification_episode.entered
    /\ Len(replies) >= 1

\* ------------------------------------------------------------ C9
\* C9: within a session the set of asked-question fingerprints only grows:
\* every step that does not begin a new session leaves a superset of it.
C9_FingerprintsOnlyGrow ==
    [][~NewSession => memory.asked_questions \subseteq memory'.asked_questions]_vars

\* three fingerprints are kept across the start and the end of a correction
\* episode
C9_Witness ==
    /\ Cardinality(memory.asked_questions) >= 3
    /\ verification_episode.entered
    /\ ~memory.correction_mode

\* ------------------------------------------------------------ C10
\* the session fields other than the start timestamp
ApartFromStart(session) == [session EXCEPT !.session_start = 0]

\* the progress snapshot of a session without exchanges
EmptySnapshot ==
    [average_quality |-> 0,
     exchanges |-> 0,
     improvement_trend |-> "neutral",
     confusion_level |-> 1,
     session_duration |-> 0,
     correction_mode |-> FALSE]

\* C10: every reset_session request leaves the empty-session progress snapshot,
\* and a reset_session request that follows another leaves every session field
\* apart from the start timestamp as the first one left it.
C10_ResetIdempotent ==
    [][response'.route = "reset_session" =>
          /\ get_session_progress(current_session', current_session'.session_start)
                 = EmptySnapshot
          /\ response.route = "reset_session" =>
                 ApartFromStart(current_session') = ApartFromStart(current_session)]_vars

\* a session reset after the clock has advanced
C10_Witness ==
    /\ response.route = "reset_session"
    /\ current_session.session_start > 0
    /\ get_session_progress(current_session, now) = EmptySnapshot

\* ------------------------------------------------------------ C11
\* this step is a start_teaching or teach_step request whose text is blank
\* once trimmed
BlankRequest ==
    /\ request'.route \in {"start_teaching", "teach_step"}
    /\ strip(request'.input) = ""

\* C11: a start_teaching or teach_step request whose text is blank once trimmed
\* is answered with an error (status 400), leaves every field of the session as
\* it was, and calls no capability.
C11_BlankRejectedUntouched ==
    [][BlankRequest =>
          /\ response'.route = request'.route
          /\ response'.status = 400
          /\ "error" \in DOMAIN response'
          /\ current_session' = current_session
          /\ verification_episode' = verification_episode
          /\ invoked' = {}]_vars

\* a blank explanation was rejected in the middle of a correction episode
C11_Witness ==
    /\ request.route = "teach_step"
    /\ strip(request.input) = ""
    /\ response.status = 400
    /\ memory.correction_mode
    /\ current_session.exchanges_count >= 2

\* ------------------------------------------------------------ C12
\* this step is a teach_step request whose explanation, trimmed, is not blank
\* and holds a word of the disrespect blocklist
DisrespectfulRequest ==
    /\ request'.route = "teach_step"
    /\ strip(request'.input) # ""
    /\ is_inappropriate_response(strip(request'.input))

\* the fixed refusal with score 0.1, no capability called
Refused ==
    /\ response'.route = "teach_step" /\ response'.status = 200
    /\ response'.ai_response = Refusal
    /\ response'.quality_score = 10
    /\ invoked' = {}

BrokenFactCheck(reply) ==
    \/ reply \in {CallFailed, Unparsable}
    \/ /\ reply.status = "json"
       /\ \/ "has_errors" \notin DOMAIN reply.body
          \/ /\ reply.body.has_errors
             /\ ~({"incorrect_concept", "correct_explanation"}
                     \subseteq DOMAIN reply.body)

\* this step is a teach_step request whose fact-check call was made and broke
FactCheckBroke ==
    /\ request'.route = "teach_step"
    /\ request'.fact_reply # NotCalled
    /\ BrokenFactCheck(request'.fact_reply)

\* this step did what the same request does when the fact check answers
\* has_errors = false
AsIfNoErrors ==
    \E k \in Choices :
        LET clean == teach_step(current_session, now, request'.input,
                                Json([has_errors |-> FALSE]),
                                request'.assess_reply, request'.gen_reply, k)
        IN /\ current_session' = clean.session
           /\ response' = clean.response

\* C13: when the fact-check call fails, returns unparsable text or a JSON object
\* missing a required key, the teach_step behaves exactly as if has_errors were
\* false: correction mode is not entered, the explanation is scored by the
\* quality assessor, a follow-up response is returned and the exchange is
\* recorded.
C13_FactCheckFailOpen ==
    [][FactCheckBroke =>
          /\ response'.status = 200
          /\ ~memory'.correction_mode
          /\ Recorded
          /\ StepScore = ExplanationFacts[strip(request'.input)].quality
          /\ response'.quality_score = StepScore
          /\ AsIfNoErrors]_vars

\* ------------------------------------------------------------ C14
\* the reply to an assessment call that failed, did not parse, or parsed to an
\* object that lacks one of the three keys
BrokenAssessment(reply) ==
    \/ reply \in {CallFailed, Unparsable}
    \/ /\ reply.status = "json"
       /\ ~({"shows_understanding", "confidence", "encouragement"}
               \subseteq DOMAIN reply.body)

\* this step is a teach_step request whose assessment call was made and broke
AssessmentBroke ==
    /\ request'.route = "teach_step"
    /\ request'.assess_reply # NotCalled
    /\ BrokenAssessment(request'.assess_reply)

\* the reply of this step has more than 10 words
LongReply == ExplanationFacts[strip(request'.input)].words > 10

\* C14: when the assessment call fails or returns a malformed result or one
\* missing any of shows_understanding, confidence, encouragement, the
\* verification step uses shows_understanding = (the reply has more than 10
\* words) and confidence 0.5, so that correction mode ends on exactly the second
\* such reply of more than 10 words and never on a reply of 10 words or fewer.
C14_AssessmentFallback ==
    [][AssessmentBroke =>
          /\ VerifyingReply
          /\ LastReply = <<LongReply, 50>>
          /\ response'.status = 200
          /\ ~memory'.correction_mode
                <=> (LongReply /\ memory.verification_answers_correct = 1)]_vars

\* ------------------------------------------------------------ C15
\* this step is a start_teaching or teach_step request whose input is not blank
NonBlankRequest ==
    /\ request'.route \in {"start_teaching", "teach_step"}
    /\ strip(request'.input) # ""

\* a teach_step applied all of its updates or none of them: either its
\* exchange is recorded or the session is as it was
AllOrNothing ==
    request'.route = "teach_step" =>
        Recorded \/ current_session' = current_session

\* C15: whatever the capabilities reply, every start_teaching with a non-blank
\* topic and every teach_step with a non-blank explanation returns an AI
\* response and not an error, and a teach_step never leaves the session with
\* only part of its updates applied.
C15_NoFatalErrorPath ==
    [][NonBlankRequest =>
          /\ response'.status = 200
          /\ "ai_response" \in DOMAIN response'
          /\ AllOrNothing]_vars

\* ------------------------------------------------------------ C16
\* this step is a teach_step request made with correction mode off, whose
\* explanation has at least 8 words and whose fact check answered
\* has_errors = true and named the incorrect concept
FlaggedRequest ==
    /\ request'.route = "teach_step"
    /\ ~memory.correction_mode
    /\ ExplanationFacts[strip(request'.input)].words >= 8
    /\ request'.fact_reply.status = "json"
    /\ {"has_errors", "incorrect_concept"} \subseteq DOMAIN request'.fact_reply.body
    /\ request'.fact_reply.body.has_errors

\* this step is a teach_step request whose explanation is not blank and has
\* fewer than 8 words
ShortRequest ==
    /\ request'.route = "teach_step"
    /\ strip(request'.input) # ""
    /\ ExplanationFacts[strip(request'.input)].words < 8

\* C16: with correction mode off, a teach_step whose explanation has at least 8
\* words and whose fact check returns has_errors = true with its
\* incorrect_concept enters correction mode with that concept as the
\* correction topic and both counters at 0, and records score 0.2 for the
\* exchange; an explanation of fewer than 8 words never calls the fact check
\* and never enters correction mode.
C16_EntryIntoCorrection ==
    [][/\ FlaggedRequest =>
            /\ Entering
            /\ memory'.current_correction_topic =
                   request'.fact_reply.body.incorrect_concept
            /\ memory'.verification_questions_asked = 0
            /\ memory'.verification_answers_correct = 0
            /\ Recorded
            /\ StepScore = 20
            /\ response'.quality_score = 20
       /\ ShortRequest =>
            /\ "fact_check" \notin invoked'
            /\ request'.fact_reply = NotCalled
            /\ ~Entering]_vars

\* correction mode was entered on the second exchange of a session, by a
\* flagged explanation of 17 words
C16_Witness ==
    /\ request.route = "teach_step"
    /\ request.input = LongExplanation
    /\ request.fact_reply.status = "json"
    /\ memory.correction_mode
    /\ memory.current_correction_topic = IncorrectConcept
    /\ memory.verification_questions_asked = 0
    /\ current_session.exchanges_count = 2
    /\ scores[2] = 20

\* ------------------------------------------------------------ C17
\* the last response reports the progress of the session
ProgressReported == "session_progress" \in DOMAIN response

\* twice the mean of the last two scores minus twice the mean of the first two
TwiceD ==
    (scores[Len(scores) - 1] + scores[Len(scores)]) - (scores[1] + scores[2])

\* C17 as the specification words it: the trend is neutral with fewer than 3
\* scores; with 3 or more it is improving when d >= 0.2, declining when
\* d <= -0.2, and stable otherwise.
C17_TrendInclusive ==
    ProgressReported =>
        response.session_progress.improvement_trend =
            IF Len(scores) < 3 THEN "neutral"
            ELSE IF TwiceD >= 40 THEN "improving"
            ELSE IF TwiceD <= -40 THEN "declining"
            ELSE "stable"

\* C17: the trend is neutral with fewer than 3 scores; with 3 or more it is
\* improving when d > 0.2, declining when d < -0.2 and stable when d lies
\* strictly between; at d = 0.2 or d = -0.2 exactly it is stable, unless
\* the double early_avg + 0.2 (early_avg - 0.2) rounds past the double
\* recent_avg, when it is improving (declining).
C17_TrendStrict ==
    ProgressReported =>
        response.session_progress.improvement_trend =
            IF Len(scores) < 3 THEN "neutral"
            ELSE IF TwiceD > 40 THEN "improving"
            ELSE IF TwiceD < -40 THEN "declining"
            ELSE IF TwiceD = 40 /\ Ends(scores) \in RoundsBelowRecent THEN "improving"
            ELSE IF TwiceD = -40 /\ Ends(scores) \in RoundsAboveRecent THEN "declining"
            ELSE "stable"

\* the scores 0, 0.2, 0.4: the last two average exactly 0.2 above the first
\* two, and the trend reported is stable
C17_Witness ==
    /\ ProgressReported
    /\ scores = <<0, 20, 40>>
    /\ TwiceD = 40
    /\ response.session_progress.improvement_trend = "stable"

\* ------------------------------------------------------------ C18
\* what of a session the random templates must not touch
Unrandom(session) ==
    [teaching_quality_scores |-> session.teaching_quality_scores,
     ai_confusion_level |-> session.ai_confusion_level,
     correction_mode |-> session.conversation_memory.correction_mode,
     verification_questions_asked |->
         session.conversation_memory.verification_questions_asked,
     verification_answers_correct |->
         session.conversation_memory.verification_answers_correct,
     exchanges_count |-> session.exchanges_count]

\* C18: two runs given the same requests and the same capability replies but
\* different random templates have, after every step, the same quality scores,
\* the same difficulty, the same correction-mode flag and counters and the same
\* exchange count.
C18_TemplatesDoNotSteer == Unrandom(current_session) = Unrandom(twin)

\* the two runs drew different templates, so their logs differ, through a
\* correction and a verification question
C18_Witness ==
    /\ current_session.exchanges_count = 2
    /\ memory.correction_mode
    /\ memory.verification_questions_asked = 1
    /\ Len(log) = Len(twin.conversation_memory.full_conversation)
    /\ \E i \in 1..Len(log), j \in 1..Len(log) :
          /\ i < j
          /\ log[i] # twin.conversation_memory.full_conversation[i]
          /\ log[j] # twin.conversation_memory.full_conversation[j]

\* ------------------------------------------------------------ C19
\* this step completes a teach_step that a reset_session overtook: the reset
\* was served after the step had started, before it applied its updates
CompletesOvertaken ==
    /\ in_flight # None
    /\ in_flight.overtaken
    /\ in_flight' = None

\* C19: when reset_session is served while a teach_step is in flight, then
\* once both have completed the session is in its initial state: empty log, no
\* scores, exchange counter 0, difficulty 1, correction mode off with both
\* counters at 0.
C19_ResetAbandonsInFlight ==
    [][CompletesOvertaken =>
          /\ log' = <<>>
          /\ scores' = <<>>
          /\ current_session'.exchanges_count = 0
          /\ level' = 1
          /\ ~memory'.correction_mode
          /\ memory'.verification_questions_asked = 0
          /\ memory'.verification_answers_correct = 0]_vars

\* ------------------------------------------------------------ C20
\* the words of the graded explanation
GradedWords == Cardinality(graded.markers) + graded.fillers

\* the indicators true of it: one per marker word, and the one for 12 words or
\* more
GradedIndicators ==
    Cardinality(graded.markers) + (IF GradedWords >= 12 THEN 1 ELSE 0)

\* C20: the quality score lies in [0, 1] and is 0.1 for an empty explanation or
\* one of fewer than 5 characters, 0.4 for a clarifying question of at most 6
\* words, and otherwise min(1.0, k/5 + b), k the number of true indicators among
\* the five and b = 0.2 when there are more than 25 words, 0 otherwise.
C20_QualityScore ==
    (graded # None /\ graded.assessed) =>
        /\ graded.score \in 0..100
        /\ graded.score =
              IF Len(graded.explanation) < 5 THEN 10
              ELSE IF graded.asks /\ GradedWords <= 6 THEN 40
              ELSE Min(100, 20 * GradedIndicators
                              + (IF GradedWords > 25 THEN 20 ELSE 0))

\* four indicators are true of an explanation of 26 words, and its score is 1.0
C20_Witness ==
    /\ graded # None
    /\ graded.assessed
    /\ ~graded.asks
    /\ GradedWords = 26
    /\ GradedIndicators = 4
    /\ graded.score = 100

\* ------------------------------------------------------------ C21
\* C21: analyze_topic answers for every topic, and its answer is the first
\* category, in the order game, skill, historical_event, scientific_process,
\* concept, technology, one of whose keywords occurs in the lower-cased topic,
\* and general when no keyword occurs: a topic with "chess" is a game, a topic
\* with keywords of two categories gets the earlier one.
C21_FirstMatchWins ==
    (classified # None /\ classified.analyzed) =>
        /\ classified.category \in ToSet(CategoryNames) \cup {"general"}
        /\ classified.category = classified.expected
        /\ Contains("chess", lower(classified.topic)) => classified.category = "game"

\* a topic that names a robot before chess, not in lower case, was analyzed and
\* is a game
C21_Witness ==
    /\ classified # None
    /\ classified.analyzed
    /\ classified.topic = "Robot CHESS"
    /\ classified.category = "game"

\* ------------------------------------------------------------ C22
\* of the stored question's words in the candidate, those that lie whole
\* within its first 60 characters: a pad takes 7 characters, a word 6, the
\* last one 5
WordsInWindow ==
    Cardinality({j \in 1..compared.shared :
                    7 * compared.pads + 6 * j - 1 <= SignatureLen})

\* the different words the candidate's first 60 characters share with it
TokensShared ==
    IF compared.repeated THEN Min(1, WordsInWindow) ELSE WordsInWindow

\* C22: has_asked_similar answers true exactly when a stored fingerprint
\* shares at least 4 tokens with the lower-cased first 60 characters of the
\* candidate; with 3 or fewer shared with every fingerprint it answers false.
\* It answers, and leaves the stored fingerprints as they are.
C22_FourTokensInSixty ==
    (compared # None /\ compared.done) =>
        (compared.answer <=> TokensShared >= 4)

\* five pads and four of the stored words, not in lower case: the fourth ends
\* at character 58, and the candidate is a duplicate
C22_Witness ==
    /\ compared # None
    /\ compared.done
    /\ compared.pads = 5
    /\ compared.shared = 4
    /\ ~compared.repeated
    /\ compared.candidate = "orange orange orange orange orange ALPHA Bravo DELTA Gamma"
    /\ compared.answer

\* ------------------------------------------------------------ C23
\* the answer of this step carries a generated text
Answered == "ai_response" \in DOMAIN response'

\* C23: with requests handled one at a time, the hosted model is asked for a
\* response only by a request that leaves correction mode off, no answer
\* carries the text generate_response returns when correction mode is on, and
\* a verification reply whose answer holds a generated follow-up has ended
\* the episode: exit_correction_mode has run, the mode is off, the counters
\* are zero and the topic is cleared.
C23_GenerateOutsideCorrection ==
    [][/\ "generate" \in invoked' => ~memory'.correction_mode
       /\ Answered => ~Contains(FocusingFirst, response'.ai_response)
       /\ (VerifyingReply /\ "generate" \in invoked') =>
              /\ memory.correction_mode
              /\ memory' = exit_correction_mode(memory')
              /\ Len(log') = Len(log) + 2]_vars

\* a verification reply ended the episode and the answer holds a follow-up
\* the hosted model was asked for
C23_Witness ==
    /\ verification_episode.entered
    /\ replies # <<>>
    /\ ~memory.correction_mode
    /\ response.route = "teach_step"
    /\ response.status = 200
    /\ response.quality_score = 80
    /\ invoked = {"assess", "generate"}

\* ------------------------------------------------------------ C24
\* correction mode is on, or both verification counters are 0
CountersAgree(m) ==
    ~m.correction_mode =>
        /\ m.verification_questions_asked = 0
        /\ m.verification_answers_correct = 0

\* this step completes a teach_step that another teach_step overtook
CompletesOverlapped ==
    /\ in_flight # None
    /\ in_flight.overtaken
    /\ in_flight' = None

\* C24: with two teach_step requests that may overlap at the calls of the
\* hosted model, correction mode off with a verification counter above 0
\* comes about only when a teach_step completes that another teach_step
\* overtook; a teach_step that nothing overlaps, and every step of the
\* overtaking one, keeps correction mode on or both counters at 0.
C24_OnlyOverlapBreaksCounters ==
    [][(CountersAgree(memory) /\ ~CountersAgree(memory'))
          => CompletesOverlapped]_vars

\* both requests have completed; correction mode is off and a counter is not 0
C24_Witness ==
    /\ in_flight = None
    /\ response.route = "teach_step"
    /\ response.status = 200
    /\ ~memory.correction_mode
    /\ \/ memory.verification_questions_asked # 0
       \/ memory.verification_answers_correct # 0

\* ------------------------------------------------------------ C25
\* the four records of how many exchanges there were: the scores, the
\* session's counter, the memory's depth, and the log at two entries each
ExchangeRecords(session) ==
    <<Len(session.teaching_quality_scores),
      session.exchanges_count,
      session.conversation_memory.conversation_depth,
      Len(session.conversation_memory.full_conversation)>>

\* this step is a teach_step request
TeachStepAnswered == ~NewSession /\ response'.route = "teach_step"

\* C25: between requests the number of scores, the exchange counter and the
\* memory's depth are equal, and the log has twice as many entries; a
\* teach_step request either adds one to the first three and two entries to
\* the log, or leaves all four as they were.
C25_ExchangeRecordsAgree ==
    /\ [](\E n \in 0..MaxExchanges :
             ExchangeRecords(current_session) = <<n, n, n, 2 * n>>)
    /\ [][TeachStepAnswered =>
             \/ ExchangeRecords(current_session') = ExchangeRecords(current_session)
             \/ \E n \in 1..MaxExchanges :
                   /\ ExchangeRecords(current_session) = <<n - 1, n - 1, n - 1, 2 * n - 2>>
                   /\ ExchangeRecords(current_session') = <<n, n, n, 2 * n>>]_vars

\* the second exchange has been recorded
C25_Witness ==
    /\ response.route = "teach_step"
    /\ response.status = 200
    /\ response.exchanges_count = 2
    /\ ExchangeRecords(current_session) = <<2, 2, 2, 4>>

\* ------------------------------------------------------------ C26
\* this step is a start_teaching request that was accepted
Started == response'.route = "start_teaching" /\ response'.status = 200

\* C26: a start_teaching request with a topic that is not blank, whatever
\* state it finds the session in, leaves correction mode off with both
\* counters at 0, no incorrect concepts, an empty log, no fingerprints, no
\* scores, exchange counter 0 and difficulty 1: the session is a new one but
\* for its topic and the topic's analysis. The opening question it answers
\* with is in neither the log nor the fingerprints.
C26_StartIsFullReset ==
    [][Started =>
          /\ ~memory'.correction_mode
          /\ memory'.verification_questions_asked = 0
          /\ memory'.verification_answers_correct = 0
          /\ memory'.incorrect_concepts = <<>>
          /\ log' = <<>>
          /\ memory'.asked_questions = {}
          /\ memory'.last_ai_question = ""
          /\ scores' = <<>>
          /\ current_session'.exchanges_count = 0
          /\ level' = 1
          /\ response'.confusion_level = 1
          /\ current_session' =
                 [TeachingSession(now) EXCEPT
                     !.topic = response'.topic,
                     !.conversation_memory.topic_analysis =
                         analyze_topic(response'.topic)]]_vars

\* a session in correction mode at difficulty 3 was started over; the answer
\* is a question, and the session holds no trace of it
C26_Witness ==
    /\ replaced # None
    /\ replaced.correction_mode
    /\ replaced.ai_confusion_level = 3
    /\ response.route = "start_teaching"
    /\ response.status = 200
    /\ is_question(response.ai_response)
    /\ log = <<>>
    /\ memory.asked_questions = {}
    /\ level = 1

\* ------------------------------------------------------------ C27
\* the incorrect concepts on record, which get_session_progress counts as
\* corrections_made
corrections == memory.incorrect_concepts

\* this step is a teach_step request that switched correction mode off
Exiting == ~NewSession /\ memory.correction_mode /\ ~memory'.correction_mode

\* C27: the incorrect concepts on record are those correction mode was entered
\* for since the session began. A reset_session or an accepted start_teaching
\* leaves none; within a session an entry into correction mode appends its
\* concept and makes it the correction topic, and no other request changes
\* the record: it never shrinks, an exit leaves it as it is, and while
\* correction mode is on it does not grow and the correction topic stays the
\* same. A progress snapshot that reports corrections_made reports their
\* number.
C27_CorrectionsCountEntries ==
    [][/\ NewSession => corrections' = <<>>
       /\ (~NewSession /\ Entering) =>
              /\ corrections' = Append(corrections, memory'.current_correction_topic)
              /\ response'.session_progress.corrections_made = Len(corrections) + 1
       /\ (~NewSession /\ ~Entering) => corrections' = corrections
       /\ Exiting => corrections' = corrections
       /\ (~NewSession /\ memory.correction_mode) =>
              /\ Len(corrections') = Len(corrections)
              /\ memory'.correction_mode =>
                     memory'.current_correction_topic = memory.current_correction_topic
       /\ ( /\ "session_progress" \in DOMAIN response'
            /\ "corrections_made" \in DOMAIN response'.session_progress ) =>
              response'.session_progress.corrections_made = Len(corrections')]_vars

\* correction mode has been entered for the second time in the session, and
\* the progress snapshot counts two corrections
C27_Witness ==
    /\ memory.correction_mode
    /\ Len(corrections) = 2
    /\ verification_episode.entered
    /\ replies = <<>>
    /\ response.route = "teach_step"
    /\ response.status = 200
    /\ response.session_progress.corrections_made = 2

====
